---------------------------- MODULE Spec2Model ----------------------------
(***************************************************************************)
(* Listing filter and query composition of the real-estate modules:        *)
(*   - the local predicate filter over localStorage (Module 2 storage.ts), *)
(*   - the remote query builder (Module 3 propertyRepository.ts),          *)
(*   - the query-parameter codec: the encoder of the frontend API service  *)
(*     (api.ts) and the decoder of the Express controller,                 *)
(*   - the REST API over the Property table: controller, repository and    *)
(*     error middleware (specification SpecApi),                           *)
(*   - the CRUD operations of the local store and the load of the sample   *)
(*     data (specification SpecLocal),                                     *)
(*   - the home page of Module 3: filter state, loads of the listing and   *)
(*     their responses (specification SpecHome),                           *)
(*   - the Country Explorer page: UiState, render and handleSearch         *)
(*     (specification SpecExplorer), and its debounce helper in time       *)
(*     (specification SpecDebounce).                                       *)
(*                                                                         *)
(* Conventions of the model                                                *)
(*   - a JavaScript string is a sequence of one-character strings, so that *)
(*     toLowerCase, includes, Number and String are computed character by  *)
(*     character;                                                          *)
(*   - an optional value (a property that may be undefined) is <<>> when   *)
(*     undefined and <<v>> when it holds v;                                *)
(*   - a timestamp is the number new Date(iso).getTime() yields.           *)
(***************************************************************************)
EXTENDS Integers, Sequences, FiniteSets

VARIABLES
    store,      \* localStorage['real_estate_properties'], parsed: a sequence of listings
    db,         \* rows of the Property table, in insertion order
    call,       \* the call to make (of the local store: the call made last): its function and its argument
    op,         \* the operation that ran last
    filters,    \* the PropertyFilters the caller passed (local filter, API client)
    params,     \* the query-parameter bag on the wire (req.query)
    decoded,    \* the PropertyFilters the controller built from req.query
    thrown,     \* the error the controller caught ("none" when the query succeeded)
    response,   \* the HTTP response of the controller
    result,     \* the value returned to the caller (local store, API client)
    requests,   \* the HTTP requests the backend is serving, each with its progress
    clock,      \* the time in milliseconds (Date.now(), the database's now())
    importPending,  \* whether the import of the sample data is still to resolve
    properties, \* HomePage (Module 3): the listings on display
    isLoading,  \* HomePage (Module 3): the loading flag
    loads,      \* HomePage (Module 3): the calls of loadProperties, each with its progress
    currentState,     \* Country Explorer: the UiState rendered last
    lastSearchQuery,  \* Country Explorer: the query searched last
    searchInput,      \* Country Explorer: the value of the search input
    visible,          \* Country Explorer: the containers without the class hidden
    searches,         \* Country Explorer: the runs of handleSearch that rendered, each with its progress
    timeoutId,  \* debounce: the timeout that is pending
    debouncedCalls,  \* debounce: the calls of the debounced function, with their times
    invocations,  \* debounce: the invocations of the wrapped function, with their times
    delay       \* debounce: the delay in milliseconds

\* The variables of the pages.
homeVars == <<properties, isLoading, loads>>
explorerVars == <<currentState, lastSearchQuery, searchInput, visible, searches>>
debounceVars == <<timeoutId, debouncedCalls, invocations, delay>>
pageVars == <<homeVars, explorerVars, debounceVars>>

vars == <<store, db, call, op, filters, params, decoded, thrown, response, result,
          requests, clock, importPending, pageVars>>

\* The variables of the filter calls, and those of the CRUD operations.
filterVars == <<call, filters, params, decoded, thrown, response>>
crudVars == <<requests, clock, importPending, pageVars>>

\* The pages before they are opened.
HomeClosed == properties = <<>> /\ isLoading = FALSE /\ loads = <<>>
ExplorerClosed ==
    /\ currentState = [status |-> "idle"]
    /\ lastSearchQuery = <<>>
    /\ searchInput = <<>>
    /\ visible = {}
    /\ searches = <<>>
DebounceUnused ==
    timeoutId = <<>> /\ debouncedCalls = <<>> /\ invocations = <<>> /\ delay = 0

---------------------------------------------------------------------------
(* Bounds of the model                                                     *)

\* Largest number of listings in a stored collection.
MaxProps == 3
\* Largest number of fields populated together in one FilterCriteria / bag.
MaxPopulated == 3

---------------------------------------------------------------------------
(* JavaScript values                                                       *)

Undefined == <<>>
Some(v) == <<v>>
IsDefined(o) == o # <<>>

\* The number NaN (the model's other numbers are naturals).
NaN == -1

\* if (x) on an optional string: defined and not the empty string.
Truthy(o) == o # <<>> /\ o[1] # <<>>

upperChars == <<"A","B","C","D","E","F","G","H","I","J","K","L","M","N","O","P","Q","R","S","T","U","V","W","X","Y","Z">>
lowerChars == <<"a","b","c","d","e","f","g","h","i","j","k","l","m","n","o","p","q","r","s","t","u","v","w","x","y","z">>
digitChars == <<"0","1","2","3","4","5","6","7","8","9">>

\* The lower-case form of an ASCII letter; any other character is itself.
AsciiLowerChar(c) ==
    IF \E i \in 1..26 : upperChars[i] = c
    THEN lowerChars[CHOOSE i \in 1..26 : upperChars[i] = c]
    ELSE c

\* The lower-case form of a character as String.prototype.toLowerCase maps
\* it, which follows Unicode: the letters of ASCII and, of the letters
\* beyond ASCII, the one the model holds.
LowerChar(c) == IF c = "Á" THEN "á" ELSE AsciiLowerChar(c)

\* String.prototype.toLowerCase
toLowerCase(s) == [i \in 1..Len(s) |-> LowerChar(s[i])]

\* String.prototype.includes
includes(s, sub) ==
    \E i \in 0..(Len(s) - Len(sub)) : SubSeq(s, i + 1, i + Len(sub)) = sub

IsDigit(c) == \E i \in 1..10 : digitChars[i] = c
DigitValue(c) == (CHOOSE i \in 1..10 : digitChars[i] = c) - 1

RECURSIVE DigitsValue(_)
DigitsValue(s) ==
    IF s = <<>> THEN 0
    ELSE 10 * DigitsValue(SubSeq(s, 1, Len(s) - 1)) + DigitValue(s[Len(s)])

\* Number(string), for strings of digits and letters: the empty string is 0,
\* a string of decimal digits is its value, anything else is NaN.
Number(s) ==
    IF \A i \in 1..Len(s) : IsDigit(s[i]) THEN DigitsValue(s) ELSE NaN

RECURSIVE NatToString(_)
NatToString(n) ==
    IF n < 10 THEN <<digitChars[n + 1]>>
    ELSE NatToString(n \div 10) \o <<digitChars[(n % 10) + 1]>>

\* String(number), for naturals and NaN.
String(n) == IF n = NaN THEN <<"N","a","N">> ELSE NatToString(n)

\* a >= b and a <= b on numbers: every comparison with NaN is false.
Gte(a, b) == a # NaN /\ b # NaN /\ a >= b
LteExclusive(a, b) == a # NaN /\ b # NaN /\ a < b
Lte(a, b) == a # NaN /\ b # NaN /\ a <= b
Gt(a, b) == a # NaN /\ b # NaN /\ a > b

\* JSON text of a string: the string between quotes, a quote or a backslash
\* of the string preceded by a backslash.
EscapeNothing(c) == <<c>>
EscapeChar(c) == IF c = "\"" \/ c = "\\" THEN <<"\\", c>> ELSE <<c>>

RECURSIVE EscapeString(_)
EscapeString(s) ==
    IF s = <<>> THEN <<>> ELSE EscapeChar(Head(s)) \o EscapeString(Tail(s))

QuoteString(s) == <<"\"">> \o EscapeString(s) \o <<"\"">>

RECURSIVE JoinElements(_)
JoinElements(a) ==
    IF a = <<>> THEN <<>>
    ELSE IF Len(a) = 1 THEN QuoteString(a[1])
    ELSE QuoteString(a[1]) \o <<",">> \o JoinElements(Tail(a))

\* JSON.stringify of an array of strings.
JsonStringify(a) == <<"[">> \o JoinElements(a) \o <<"]">>

\* The scan of JSON.parse over the text of an array of strings, from
\* position i: the elements read so far, the string being read and whether
\* the position is inside a string.
RECURSIVE ParseFrom(_, _, _, _, _)
ParseFrom(t, i, elements, current, inString) ==
    IF i > Len(t) THEN elements
    ELSE IF inString
         THEN IF t[i] = "\\"
              THEN ParseFrom(t, i + 2, elements, Append(current, t[i + 1]), TRUE)
              ELSE IF t[i] = "\""
                   THEN ParseFrom(t, i + 1, Append(elements, current), <<>>, FALSE)
                   ELSE ParseFrom(t, i + 1, elements, Append(current, t[i]), TRUE)
         ELSE ParseFrom(t, i + 1, elements, <<>>, t[i] = "\"")

\* JSON.parse of the text of an array of strings.
JsonParse(t) == ParseFrom(t, 1, <<>>, <<>>, FALSE)

---------------------------------------------------------------------------
(* The closed enum sets                                                    *)

casa == <<"c","a","s","a">>
apartamento == <<"a","p","a","r","t","a","m","e","n","t","o">>
terreno == <<"t","e","r","r","e","n","o">>
local == <<"l","o","c","a","l">>
oficina == <<"o","f","i","c","i","n","a">>
venta == <<"v","e","n","t","a">>
alquiler == <<"a","l","q","u","i","l","e","r">>

PROPERTY_TYPES == {casa, apartamento, terreno, local, oficina}
OPERATION_TYPES == {venta, alquiler}

---------------------------------------------------------------------------
(* Listings                                                                *)

txtEmpty == <<>>
txtMar == <<"m","a","r">>
txtMarUpper == <<"M","A","R">>
txtValencia == <<"v","a","l","e","n","c","i","a">>
txtMa == <<"M","A">>
cityValencia == <<"V","a","l","e","n","c","i","a">>
cityAvila == <<"Á","v","i","l","a">>
txtAvila == <<"á","v","i","l","a">>
cityMarbella == <<"M","a","r","b","e","l","l","a">>

\* Four listings in the shape of Property (id, texts, enums, numbers,
\* timestamps).  Listing 1 holds "mar" in its title, listing 4 holds "MAR"
\* in its description, listing 3 holds "Mar" in its city only; listings 2
\* and 3 were created in the same millisecond.
Listing1 ==
    [id |-> "p1",
     title |-> <<"C","a","s","a"," ","j","u","n","t","o"," ","a","l"," ","m","a","r">>,
     description |-> <<"V","i","s","t","a","s"," ","a"," ","l","a"," ","p","l","a","y","a">>,
     address |-> <<"C","a","l","l","e"," ","S","o","l"," ","1">>,
     city |-> cityValencia,
     propertyType |-> casa, operationType |-> venta,
     price |-> 250000, bedrooms |-> 3, createdAt |-> 3, updatedAt |-> 3]
Listing2 ==
    [id |-> "p2",
     title |-> <<"A","p","a","r","t","a","m","e","n","t","o"," ","c","e","n","t","r","o">>,
     description |-> <<"L","u","m","i","n","o","s","o"," ","y"," ","a","m","p","l","i","o">>,
     address |-> <<"G","r","a","n"," ","V","i","a"," ","2","0">>,
     city |-> cityAvila,
     propertyType |-> apartamento, operationType |-> alquiler,
     price |-> 100000, bedrooms |-> 1, createdAt |-> 2, updatedAt |-> 2]
Listing3 ==
    [id |-> "p3",
     title |-> <<"L","o","c","a","l"," ","c","o","m","e","r","c","i","a","l">>,
     description |-> <<"Z","o","n","a"," ","d","e"," ","p","a","s","o">>,
     address |-> <<"A","v","e","n","i","d","a"," ","N","o","r","t","e"," ","5">>,
     city |-> cityMarbella,
     propertyType |-> local, operationType |-> venta,
     price |-> 500000, bedrooms |-> 0, createdAt |-> 2, updatedAt |-> 4]
Listing4 ==
    [id |-> "p4",
     title |-> <<"C","a","s","a"," ","c","o","n"," ","j","a","r","d","i","n">>,
     description |-> <<"C","e","r","c","a"," ","d","e","l"," ","M","A","R">>,
     address |-> <<"C","a","m","i","n","o"," ","R","e","a","l"," ","8">>,
     city |-> cityValencia,
     propertyType |-> casa, operationType |-> alquiler,
     price |-> 250000, bedrooms |-> 2, createdAt |-> 1, updatedAt |-> 1]

Listings == {Listing1, Listing2, Listing3, Listing4}

Range(s) == {s[i] : i \in 1..Len(s)}

\* The stored collections: the sequences of distinct listings, in any order.
Collections ==
    UNION {{s \in [1..n -> Listings] : \A i, j \in 1..n : i # j => s[i] # s[j]}
           : n \in 0..MaxProps}

---------------------------------------------------------------------------
(* PropertyFilters and the query-parameter bag                             *)

FilterKeys ==
    {"search", "propertyType", "operationType", "minPrice", "maxPrice",
     "minBedrooms", "city"}

NoFilters == [k \in FilterKeys |-> Undefined]

Populated(f) == {k \in FilterKeys : IsDefined(f[k])}

\* The criteria a caller may pass: at most MaxPopulated fields are defined.
FilterCriteria ==
    {f \in [search : {Undefined, Some(txtEmpty), Some(txtMar), Some(txtMarUpper)},
            propertyType : {Undefined, Some(casa), Some(local)},
            operationType : {Undefined, Some(venta), Some(alquiler)},
            minPrice : {Undefined, Some(0), Some(150000), Some(250000)},
            maxPrice : {Undefined, Some(0), Some(250000), Some(300000)},
            minBedrooms : {Undefined, Some(0), Some(2)},
            city : {Undefined, Some(txtEmpty), Some(txtValencia), Some(txtMa),
                    Some(txtAvila)}] :
        Cardinality(Populated(f)) <= MaxPopulated}

---------------------------------------------------------------------------
(* Local predicate filter (storage.ts)                                     *)

\* getAllProperties: the parsed array of localStorage.
getAllProperties(st) == st

\* The predicate of the text search, on the lower-cased term.
SearchMatches(p, searchLower) ==
    \/ includes(toLowerCase(p.title), searchLower)
    \/ includes(toLowerCase(p.description), searchLower)
    \/ includes(toLowerCase(p.address), searchLower)
    \/ includes(toLowerCase(p.city), searchLower)

\* A numeric filter is applied when it is defined and greater than 0.
NumericFilterOn(o) == IsDefined(o) /\ Gt(o[1], 0)

CityMatches(p, city) == includes(toLowerCase(p.city), toLowerCase(city))

\* Array.prototype.sort with (a, b) => time(b.createdAt) - time(a.createdAt):
\* a stable sort, newest first.
InsertByCreatedAtAscending(sorted, p) ==
    LET k == Cardinality({i \in 1..Len(sorted) : sorted[i].createdAt <= p.createdAt})
    IN  SubSeq(sorted, 1, k) \o <<p>> \o SubSeq(sorted, k + 1, Len(sorted))

InsertByCreatedAt(sorted, p) ==
    LET k == Cardinality({i \in 1..Len(sorted) : sorted[i].createdAt >= p.createdAt})
    IN  SubSeq(sorted, 1, k) \o <<p>> \o SubSeq(sorted, k + 1, Len(sorted))

\* The array left in the order of the store.
KeepOrder(s) == s

RECURSIVE SortByCreatedAtDesc(_)
SortByCreatedAtDesc(s) ==
    IF s = <<>> THEN <<>>
    ELSE InsertByCreatedAt(SortByCreatedAtDesc(SubSeq(s, 1, Len(s) - 1)), s[Len(s)])

filterProperties(st, f) ==
    LET p0 == getAllProperties(st)
        p1 == IF Truthy(f.search)
              THEN SelectSeq(p0, LAMBDA p : SearchMatches(p, toLowerCase(f.search[1])))
              ELSE p0
        p2 == IF Truthy(f.propertyType)
              THEN SelectSeq(p1, LAMBDA p : p.propertyType = f.propertyType[1])
              ELSE p1
        p3 == IF Truthy(f.operationType)
              THEN SelectSeq(p2, LAMBDA p : p.operationType = f.operationType[1])
              ELSE p2
        p4 == IF NumericFilterOn(f.minPrice)
              THEN SelectSeq(p3, LAMBDA p : Gte(p.price, f.minPrice[1]))
              ELSE p3
        p5 == IF NumericFilterOn(f.maxPrice)
              THEN SelectSeq(p4, LAMBDA p : Lte(p.price, f.maxPrice[1]))
              ELSE p4
        p6 == IF NumericFilterOn(f.minBedrooms)
              THEN SelectSeq(p5, LAMBDA p : Gte(p.bedrooms, f.minBedrooms[1]))
              ELSE p5
        p7 == IF Truthy(f.city)
              THEN SelectSeq(p6, LAMBDA p : CityMatches(p, f.city[1]))
              ELSE p6
    IN  SortByCreatedAtDesc(p7)

---------------------------------------------------------------------------
(* Query-parameter codec                                                   *)

txtInvalidEnum == <<"i","n","v","a","l","i","d">>
str0 == <<"0">>
str2 == <<"2">>
str02 == <<"0","2">>
str150000 == <<"1","5","0","0","0","0">>
str0150000 == <<"0","1","5","0","0","0","0">>
str300000 == <<"3","0","0","0","0","0">>
strAbc == <<"a","b","c">>

\* The bags a client may send (req.query): every value is a string.
QueryBags ==
    {q \in [search : {Undefined, Some(txtEmpty), Some(txtMar), Some(txtMarUpper)},
            propertyType : {Undefined, Some(casa), Some(local), Some(txtInvalidEnum)},
            operationType : {Undefined, Some(venta), Some(txtInvalidEnum)},
            minPrice : {Undefined, Some(str0), Some(str150000), Some(str0150000), Some(strAbc)},
            maxPrice : {Undefined, Some(txtEmpty), Some(str0), Some(str300000), Some(strAbc)},
            minBedrooms : {Undefined, Some(str2), Some(str02), Some(strAbc)},
            city : {Undefined, Some(txtEmpty), Some(txtValencia)}] :
        Cardinality(Populated(q)) <= MaxPopulated}

\* api.ts getAllProperties: the URLSearchParams built from the filters.
\* (params.toString() and Express's query parser are inverse on the strings
\* of the model, so the bag is what req.query holds.)
EncodeTextWhenDefined(o) == o
EncodeText(o) == IF Truthy(o) THEN o ELSE Undefined
EncodeNumberWhenTruthy(o) == IF o # Undefined /\ o[1] # 0 THEN Some(String(o[1])) ELSE Undefined
EncodeNumber(o) == IF o # Undefined THEN Some(String(o[1])) ELSE Undefined

EncodeParams(f) ==
    [search |-> EncodeText(f.search),
     propertyType |-> EncodeText(f.propertyType),
     operationType |-> EncodeText(f.operationType),
     minPrice |-> EncodeNumber(f.minPrice),
     maxPrice |-> EncodeNumber(f.maxPrice),
     minBedrooms |-> EncodeNumber(f.minBedrooms),
     city |-> EncodeText(f.city)]

\* Controller getAllProperties: req.query.x ? Number(req.query.x) : undefined
DecodeNumberOrUndefined(o) ==
    IF Truthy(o) /\ Number(o[1]) # 0 /\ Number(o[1]) # NaN
    THEN Some(Number(o[1]))
    ELSE Undefined
DecodeNumber(o) == IF Truthy(o) THEN Some(Number(o[1])) ELSE Undefined

\* Controller getAllProperties: the filters extracted from req.query; the text
\* and enum values are taken as they are (a cast, no validation).
DecodeQuery(q) ==
    [search |-> q.search,
     propertyType |-> q.propertyType,
     operationType |-> q.operationType,
     minPrice |-> DecodeNumber(q.minPrice),
     maxPrice |-> DecodeNumber(q.maxPrice),
     minBedrooms |-> DecodeNumber(q.minBedrooms),
     city |-> q.city]

---------------------------------------------------------------------------
(* Remote query builder (propertyRepository.ts)                            *)

SearchColumns == <<"title", "description", "address", "city">>

buildWhereClause(f) ==
    [propertyType |-> IF Truthy(f.propertyType) THEN f.propertyType ELSE Undefined,
     operationType |-> IF Truthy(f.operationType) THEN f.operationType ELSE Undefined,
     price |-> IF f.minPrice # Undefined \/ f.maxPrice # Undefined
               THEN Some([gte |-> f.minPrice, lte |-> f.maxPrice])
               ELSE Undefined,
     bedrooms |-> IF f.minBedrooms # Undefined
                  THEN Some([gte |-> f.minBedrooms[1]])
                  ELSE Undefined,
     city |-> IF Truthy(f.city) THEN Some([contains |-> f.city[1]]) ELSE Undefined,
     OR |-> IF Truthy(f.search)
            THEN Some([i \in 1..Len(SearchColumns) |->
                          [column |-> SearchColumns[i], contains |-> f.search[1]]])
            ELSE Undefined]

\* The text as SQLite's LIKE compares it: the case of ASCII letters is
\* ignored, every other character is compared as it is.
LikeFold(s) == [i \in 1..Len(s) |-> AsciiLowerChar(s[i])]

\* Prisma's { contains } on SQLite (the adapter of the repository) is
\* LIKE '%term%'.
PrismaContains(value, term) == includes(LikeFold(value), LikeFold(term))

\* Whether a row satisfies a where object: the conjunction of its keys, OR
\* being the disjunction of its elements.
PrismaMatches(where, row) ==
    /\ IsDefined(where.propertyType) => row.propertyType = where.propertyType[1]
    /\ IsDefined(where.operationType) => row.operationType = where.operationType[1]
    /\ IsDefined(where.price) =>
          /\ IsDefined(where.price[1].gte) => Gte(row.price, where.price[1].gte[1])
          /\ IsDefined(where.price[1].lte) => Lte(row.price, where.price[1].lte[1])
    /\ IsDefined(where.bedrooms) => Gte(row.bedrooms, where.bedrooms[1].gte)
    /\ IsDefined(where.city) => PrismaContains(row.city, where.city[1].contains)
    /\ IsDefined(where.OR) =>
          \E i \in 1..Len(where.OR[1]) :
              PrismaContains(row[where.OR[1][i].column], where.OR[1][i].contains)

IsSortedDesc(s) == \A i \in 1..(Len(s) - 1) : s[i].createdAt >= s[i + 1].createdAt

\* orderBy: { createdAt: 'desc' }: the orders of the rows the engine may
\* return (rows of equal createdAt come in an order it chooses).
OrderByCreatedAtDesc(rows) ==
    {s \in [1..Cardinality(rows) -> rows] : Range(s) = rows /\ IsSortedDesc(s)}

\* prisma.property.findMany({ where, orderBy }): its possible results.
findMany(table, where) ==
    OrderByCreatedAtDesc({r \in Range(table) : PrismaMatches(where, r)})

\* toProperty: every attribute of the row as it is, amenities and images
\* (on the rows that carry them) parsed from their JSON text.
toProperty(r) ==
    [k \in DOMAIN r |->
        IF k \in {"amenities", "images"} THEN JsonParse(r[k]) ELSE r[k]]

\* propertyRepository.findAll: its possible results when the query succeeds.
findAll(table, f) ==
    {[i \in 1..Len(rows) |-> toProperty(rows[i])] :
        rows \in findMany(table, buildWhereClause(f))}

---------------------------------------------------------------------------
(* Controller (GET /api/properties) and API client                         *)

NoParams == [k \in FilterKeys |-> Undefined]
NoResponse == [status |-> 0, success |-> FALSE, code |-> "", message |-> "", data |-> <<>>]

OkResponse(data) ==
    [status |-> 200, success |-> TRUE, code |-> "", message |-> "", data |-> data]
InternalErrorResponse ==
    [status |-> 500, success |-> FALSE, code |-> "INTERNAL_ERROR",
     message |-> "Error interno del servidor", data |-> <<>>]

\* Whether the where object holds NaN as a bound.
WhereHasNaN(where) ==
    \/ /\ IsDefined(where.price)
       /\ \/ where.price[1].gte = Some(NaN)
          \/ where.price[1].lte = Some(NaN)
    \/ /\ IsDefined(where.bedrooms)
       /\ where.bedrooms[1].gte = NaN

\* await propertyRepository.findAll(filters) in the controller: the listings
\* found, or an error thrown by the storage call.  The storage engine may be
\* unreachable on any query; a query whose bound is NaN is either rejected
\* by the client (a validation error) or run with a bound no row satisfies.
FindAllOutcomes(table, f) ==
    {[thrown |-> "none", data |-> d] : d \in findAll(table, f)}
        \cup {[thrown |-> "storage unreachable", data |-> <<>>]}
        \cup (IF WhereHasNaN(buildWhereClause(f))
              THEN {[thrown |-> "invalid argument", data |-> <<>>]}
              ELSE {})

\* The controller answering an empty result as a missing resource.
ControllerResponseNotFoundWhenEmpty(outcome) ==
    IF outcome.thrown # "none" THEN InternalErrorResponse
    ELSE IF outcome.data = <<>>
         THEN [status |-> 404, success |-> FALSE, code |-> "NOT_FOUND",
               message |-> "Recurso no encontrado", data |-> <<>>]
         ELSE OkResponse(outcome.data)

\* The try / catch of the controller: res.json of the data, or status 500.
ControllerResponse(outcome) ==
    IF outcome.thrown = "none"
    THEN OkResponse(outcome.data)
    ELSE InternalErrorResponse

---------------------------------------------------------------------------
(* State machine                                                           *)

Calls ==
    {[fn |-> "filterProperties", arg |-> f] : f \in FilterCriteria}
        \cup {[fn |-> "api.getAllProperties", arg |-> f] : f \in FilterCriteria}
        \cup {[fn |-> "GET /api/properties", arg |-> q] : q \in QueryBags}

\* The local collection and the table hold a stored collection, and one call
\* is to be made on it.
Init ==
    /\ store \in Collections
    /\ db = store
    /\ call \in Calls
    /\ op = "none"
    /\ filters = NoFilters
    /\ params = NoParams
    /\ decoded = NoFilters
    /\ thrown = "none"
    /\ response = NoResponse
    /\ result = <<>>
    /\ requests = <<>>
    /\ clock = 0
    /\ importPending = FALSE
    /\ HomeClosed /\ ExplorerClosed /\ DebounceUnused

\* The filter with its in-place sort reaching the stored array.
FilterPropertiesSortingStore ==
    /\ op = "none"
    /\ call.fn = "filterProperties"
    /\ op' = call.fn
    /\ filters' = call.arg
    /\ result' = filterProperties(store, call.arg)
    /\ store' = SortByCreatedAtDesc(store)
    /\ UNCHANGED <<db, call, params, decoded, thrown, response>>
    /\ UNCHANGED crudVars

\* storage.ts filterProperties(filters), as HomePage.loadProperties of Module 2
\* calls it.
FilterProperties ==
    /\ op = "none"
    /\ call.fn = "filterProperties"
    /\ op' = call.fn
    /\ filters' = call.arg
    /\ result' = filterProperties(store, call.arg)
    /\ UNCHANGED <<store, db, call, params, decoded, thrown, response>>
    /\ UNCHANGED crudVars

\* Controller getAllProperties(req, res) on a request with query q.
GetAllProperties ==
    /\ op = "none"
    /\ call.fn = "GET /api/properties"
    /\ op' = call.fn
    /\ params' = call.arg
    /\ decoded' = DecodeQuery(call.arg)
    /\ \E outcome \in FindAllOutcomes(db, decoded') :
          /\ thrown' = outcome.thrown
          /\ response' = ControllerResponse(outcome)
    /\ UNCHANGED <<store, db, call, filters, result>>
    /\ UNCHANGED crudVars

\* api.ts getAllProperties(filters): the request is built, the controller
\* answers, and the data (or [] on an error response) are returned.
ApiGetAllProperties ==
    /\ op = "none"
    /\ call.fn = "api.getAllProperties"
    /\ op' = call.fn
    /\ filters' = call.arg
    /\ params' = EncodeParams(call.arg)
    /\ decoded' = DecodeQuery(params')
    /\ \E outcome \in FindAllOutcomes(db, decoded') :
          /\ thrown' = outcome.thrown
          /\ response' = ControllerResponse(outcome)
    /\ result' = IF response'.success THEN response'.data ELSE <<>>
    /\ UNCHANGED <<store, db, call>>
    /\ UNCHANGED crudVars

\* api.ts getAllProperties(filters) when fetch rejects: [] is returned.
ApiConnectionError ==
    /\ op = "none"
    /\ call.fn = "api.getAllProperties"
    /\ op' = "api.getAllProperties failed"
    /\ filters' = call.arg
    /\ params' = EncodeParams(call.arg)
    /\ result' = <<>>
    /\ UNCHANGED <<store, db, call, decoded, thrown, response>>
    /\ UNCHANGED crudVars

Next ==
    \/ FilterProperties
    \/ GetAllProperties
    \/ ApiGetAllProperties
    \/ ApiConnectionError

Spec == Init /\ [][Next]_vars

---------------------------------------------------------------------------
(* What the specification says a listing must satisfy                      *)

ContainsIgnoringCase(text, term) == includes(toLowerCase(text), toLowerCase(term))

\* The free-text search: the term occurs in the title, the description or
\* the address.
SatisfiesSearch(L, term) ==
    \/ ContainsIgnoringCase(L.title, term)
    \/ ContainsIgnoringCase(L.description, term)
    \/ ContainsIgnoringCase(L.address, term)

\* A numeric bound constrains when it is set and greater than 0 (the pages
\* write 0 into a bound whose input was cleared).
BoundApplies(o) == IsDefined(o) /\ o[1] > 0

\* Every populated field of f other than propertyType holds of L: inclusive
\* numeric bounds, enum equality, case-insensitive containment.
SatisfiesOtherFields(L, f) ==
    /\ IsDefined(f.search) => SatisfiesSearch(L, f.search[1])
    /\ IsDefined(f.operationType) => L.operationType = f.operationType[1]
    /\ BoundApplies(f.minPrice) => L.price >= f.minPrice[1]
    /\ BoundApplies(f.maxPrice) => L.price <= f.maxPrice[1]
    /\ BoundApplies(f.minBedrooms) => L.bedrooms >= f.minBedrooms[1]
    /\ IsDefined(f.city) => ContainsIgnoringCase(L.city, f.city[1])

IsPermutationOf(s, t) == Len(s) = Len(t) /\ Range(s) = Range(t)

LocalFilterRan == op = "filterProperties"
ControllerRan == op = "GET /api/properties"
ApiClientRan == op = "api.getAllProperties"

---------------------------------------------------------------------------
(* Claims                                                                  *)

\* C1: with propertyType set, a stored listing L is in the result of
\* filterProperties(F) if and only if L.propertyType = F.propertyType and L
\* satisfies every other populated field of F (a numeric bound being read as
\* populated when it is greater than 0, the reading most favourable to the
\* claim).
C1_LocalConjunction ==
    (LocalFilterRan /\ IsDefined(filters.propertyType)) =>
        \A L \in Range(store) :
            (L \in Range(result)) <=>
                (/\ L.propertyType = filters.propertyType[1]
                 /\ SatisfiesOtherFields(L, filters))

\* C2: with only the search term set, a listing matches if and only if the
\* term occurs, ignoring case, in its title, its description or its address;
\* locally and through the OR clause of the remote query.
C2_SearchOverThreeFields ==
    /\ (LocalFilterRan /\ Populated(filters) = {"search"}) =>
          \A L \in Range(store) :
              (L \in Range(result)) <=> SatisfiesSearch(L, filters.search[1])
    /\ (ControllerRan /\ Populated(params) = {"search"} /\ response.success) =>
          \A L \in Range(db) :
              (L \in Range(response.data)) <=> SatisfiesSearch(L, params.search[1])

\* C3: with every field unset (locally, or remotely with no query parameter)
\* every stored listing is returned exactly once, newest first.
C3_EmptyCriteriaReturnAll ==
    /\ (LocalFilterRan /\ filters = NoFilters) =>
          IsPermutationOf(result, store) /\ IsSortedDesc(result)
    /\ (ControllerRan /\ params = NoParams /\ response.success) =>
          IsPermutationOf(response.data, db) /\ IsSortedDesc(response.data)
    /\ (ApiClientRan /\ filters = NoFilters) =>
          /\ params = NoParams
          /\ response.success =>
                IsPermutationOf(result, db) /\ IsSortedDesc(result)

C3_Witness ==
    /\ LocalFilterRan
    /\ filters = NoFilters
    /\ store = <<Listing4, Listing3, Listing1>>
    /\ result = <<Listing1, Listing3, Listing4>>

\* C4 as stated: a set minPrice m admits only price >= m, a set maxPrice M
\* only price <= M, an unset bound admits every price; so with only the two
\* bounds set the result holds exactly the listings within them.
C4_InclusiveBoundsWhenSet ==
    LocalFilterRan =>
        /\ \A L \in Range(result) :
              /\ IsDefined(filters.minPrice) => L.price >= filters.minPrice[1]
              /\ IsDefined(filters.maxPrice) => L.price <= filters.maxPrice[1]
        /\ Populated(filters) \subseteq {"minPrice", "maxPrice"} =>
              Range(result) =
                  {L \in Range(store) :
                      /\ IsDefined(filters.minPrice) => L.price >= filters.minPrice[1]
                      /\ IsDefined(filters.maxPrice) => L.price <= filters.maxPrice[1]}

WithinPriceBounds(L, f) ==
    /\ BoundApplies(f.minPrice) => L.price >= f.minPrice[1]
    /\ BoundApplies(f.maxPrice) => L.price <= f.maxPrice[1]

\* C4, amended: a minPrice m > 0 admits only price >= m, a maxPrice M > 0 only
\* price <= M, a bound that is unset or not greater than 0 admits every price;
\* so minPrice = maxPrice = P > 0 returns exactly the listings priced P, and
\* {minPrice: 150000, maxPrice: 300000} over the prices 100000, 250000 and
\* 500000 returns exactly the listing priced 250000.
C4_InclusiveBoundsWhenPositive ==
    LocalFilterRan =>
        /\ \A L \in Range(result) : WithinPriceBounds(L, filters)
        /\ Populated(filters) \subseteq {"minPrice", "maxPrice"} =>
              Range(result) = {L \in Range(store) : WithinPriceBounds(L, filters)}
        /\ (/\ Populated(filters) = {"minPrice", "maxPrice"}
            /\ filters.minPrice = filters.maxPrice
            /\ filters.minPrice[1] > 0) =>
              Range(result) = {L \in Range(store) : L.price = filters.minPrice[1]}
        /\ (/\ Populated(filters) = {"minPrice", "maxPrice"}
            /\ filters.minPrice = Some(150000)
            /\ filters.maxPrice = Some(300000)
            /\ Len(store) = 3
            /\ {L.price : L \in Range(store)} = {100000, 250000, 500000}) =>
              Len(result) = 1 /\ result[1].price = 250000

C4_Witness ==
    /\ LocalFilterRan
    /\ filters = [NoFilters EXCEPT !.minPrice = Some(150000), !.maxPrice = Some(300000)]
    /\ store = <<Listing2, Listing1, Listing3>>
    /\ result = <<Listing1>>

\* C5: on the same collection and the same criteria, the listings the remote
\* query returns are those the local filter returns, in the same order.
C5_RemoteEqualsLocal ==
    (ApiClientRan /\ response.success) =>
        result = filterProperties(store, filters)

TextKeys == {"search", "propertyType", "operationType", "city"}
NumericKeys == {"minPrice", "maxPrice", "minBedrooms"}

\* The bag without the parameters ks.
WithoutParams(q, ks) == [k \in FilterKeys |-> IF k \in ks THEN Undefined ELSE q[k]]

\* The enum parameters of a bag whose value is outside the closed set.
InvalidEnumParams(q) ==
    {k \in {"propertyType"} : IsDefined(q[k]) /\ q[k][1] \notin PROPERTY_TYPES}
        \cup {k \in {"operationType"} : IsDefined(q[k]) /\ q[k][1] \notin OPERATION_TYPES}

\* C6: a propertyType or operationType outside the closed set is absent from
\* the decoded criteria, no error is raised, and the listings returned are
\* those of the same request without that parameter.
C6_InvalidEnumDropped ==
    (ControllerRan /\ InvalidEnumParams(params) # {}) =>
        /\ \A k \in InvalidEnumParams(params) : decoded[k] = Undefined
        /\ thrown = "none" =>
              /\ response.success
              /\ response.data \in
                    findAll(db, DecodeQuery(WithoutParams(params, InvalidEnumParams(params))))

\* The numeric parameters of a bag whose value is a non-numeric string.
MalformedNumericParams(q) ==
    {k \in NumericKeys :
        IsDefined(q[k]) /\ \E i \in 1..Len(q[k][1]) : ~IsDigit(q[k][1][i])}

\* C7: with a non-numeric minPrice, maxPrice or minBedrooms the request is
\* answered successfully (the storage being reachable) with the listings of
\* the same request without that parameter.
C7_MalformedNumericAbsent ==
    (ControllerRan /\ MalformedNumericParams(params) # {}
        /\ thrown # "storage unreachable") =>
        /\ response.success
        /\ response.data \in
              findAll(db, DecodeQuery(WithoutParams(params, MalformedNumericParams(params))))

WellFormedNumeric(str) == str # <<>> /\ \A i \in 1..Len(str) : IsDigit(str[i])

\* A bag of valid enum values and well-formed numeric strings.
ValidBag(q) ==
    /\ InvalidEnumParams(q) = {}
    /\ \A k \in NumericKeys : IsDefined(q[k]) => WellFormedNumeric(q[k][1])

\* C8 as stated: encoding the criteria decoded from a bag of valid enum
\* values and well-formed numeric strings yields the bag.
C8_EncodeDecodeOfValidBag ==
    (ControllerRan /\ ValidBag(params)) => EncodeParams(decoded) = params

\* A digit string without a leading zero, or "0".
CanonicalNumeric(str) == WellFormedNumeric(str) /\ (Len(str) > 1 => str[1] # "0")

CanonicalBag(q) ==
    /\ InvalidEnumParams(q) = {}
    /\ \A k \in NumericKeys : IsDefined(q[k]) => CanonicalNumeric(q[k][1])
    /\ \A k \in TextKeys : q[k] # Some(txtEmpty)

\* C8, amended: encoding the criteria decoded from a bag yields the bag when
\* the bag holds valid enum values, numeric strings in canonical form (the
\* rendering String gives of their number) and no empty-string value.
C8_EncodeDecodeOfCanonicalBag ==
    (ControllerRan /\ CanonicalBag(params)) => EncodeParams(decoded) = params

C8_Witness ==
    /\ ControllerRan
    /\ params = [NoParams EXCEPT !.propertyType = Some(casa),
                                 !.minPrice = Some(str0),
                                 !.maxPrice = Some(str300000)]
    /\ decoded.minPrice = Some(0)
    /\ decoded.maxPrice = Some(300000)
    /\ EncodeParams(decoded) = params

\* C9 as stated: decoding the bag encoded from criteria of valid enum values
\* yields the criteria, field by field.
C9_DecodeEncodeOfCriteria ==
    ApiClientRan => decoded = filters

\* C9, amended: decoding the bag encoded from criteria of valid enum values
\* yields the criteria field by field (numeric bounds equal to 0 included),
\* except that a text field holding the empty string is decoded as absent.
C9_DecodeEncodeButEmptyText ==
    ApiClientRan =>
        \A k \in FilterKeys :
            decoded[k] =
                IF k \in TextKeys /\ filters[k] = Some(txtEmpty)
                THEN Undefined
                ELSE filters[k]

C9_Witness ==
    /\ ApiClientRan
    /\ filters = [NoFilters EXCEPT !.search = Some(txtMar),
                                   !.minPrice = Some(0),
                                   !.city = Some(txtEmpty)]
    /\ decoded = [filters EXCEPT !.city = Undefined]

\* A field is populated when it is set and, for a text field, not empty.
IsPopulatedField(f, k) == IsDefined(f[k]) /\ (k \in TextKeys => f[k][1] # txtEmpty)

RenderingsOfNothing ==
    {txtEmpty, <<"u","n","d","e","f","i","n","e","d">>, <<"n","u","l","l">>}

\* C10: the encoded bag holds a key exactly for each populated field, and no
\* value is the empty string or a rendering of null or undefined.
C10_SparseEncoding ==
    (ApiClientRan \/ op = "api.getAllProperties failed") =>
        \A k \in FilterKeys :
            /\ IsDefined(params[k]) <=> IsPopulatedField(filters, k)
            /\ IsDefined(params[k]) => params[k][1] \notin RenderingsOfNothing

C10_Witness ==
    /\ ApiClientRan
    /\ filters = [NoFilters EXCEPT !.search = Some(txtEmpty),
                                   !.propertyType = Some(casa),
                                   !.minBedrooms = Some(0)]
    /\ params = [NoParams EXCEPT !.propertyType = Some(casa),
                                 !.minBedrooms = Some(str0)]

\* Every adjacent pair of the sequence has the earlier element's createdAt
\* greater than or equal to the later's.
AdjacentPairsDescend(s) ==
    \A i \in 1..(Len(s) - 1) : s[i].createdAt >= s[i + 1].createdAt

\* C11: for every collection and every FilterCriteria, the sequence returned
\* by the local filter and the data of a successful remote answer (and what
\* the API client hands on) are sorted by createdAt descending.
C11_ResultSortedByCreatedAtDesc ==
    /\ LocalFilterRan => AdjacentPairsDescend(result)
    /\ (ControllerRan \/ ApiClientRan) /\ response.success =>
          AdjacentPairsDescend(response.data)
    /\ ApiClientRan => AdjacentPairsDescend(result)

C11_Witness ==
    /\ LocalFilterRan
    /\ filters = [NoFilters EXCEPT !.propertyType = Some(casa)]
    /\ store = <<Listing4, Listing2, Listing1>>
    /\ result = <<Listing1, Listing4>>

\* C12: filterProperties leaves the stored collection as it was, content and
\* order, whatever the criteria; the sequence it returns is its own, so the
\* sort that orders it does not reorder the store.
C12_FilterLeavesStoreUnchanged ==
    [][op' = "filterProperties" => store' = store]_vars

C12_Witness ==
    /\ LocalFilterRan
    /\ filters = [NoFilters EXCEPT !.operationType = Some(alquiler)]
    /\ store = <<Listing4, Listing1, Listing2>>
    /\ result = <<Listing2, Listing4>>

\* Only the given field of the criteria is set.
OnlyFieldSet(f, k) == IsDefined(f[k]) /\ \A j \in FilterKeys \ {k} : f[j] = Undefined

\* C13: with only city = c set, a listing is returned if and only if its
\* city contains c ignoring case, by the local filter and by the remote
\* query alike; and with only search = s set, a listing whose title,
\* description or address contains s ignoring case is returned.
C13_CityContainmentIgnoresCase ==
    /\ LocalFilterRan /\ OnlyFieldSet(filters, "city") =>
          \A L \in Range(store) :
              L \in Range(result) <=> ContainsIgnoringCase(L.city, filters.city[1])
    /\ ApiClientRan /\ response.success /\ OnlyFieldSet(filters, "city") =>
          \A L \in Range(db) :
              L \in Range(result) <=> ContainsIgnoringCase(L.city, filters.city[1])
    /\ LocalFilterRan /\ OnlyFieldSet(filters, "search") =>
          \A L \in Range(store) :
              SatisfiesSearch(L, filters.search[1]) => L \in Range(result)
    /\ ApiClientRan /\ response.success /\ OnlyFieldSet(filters, "search") =>
          \A L \in Range(db) :
              SatisfiesSearch(L, filters.search[1]) => L \in Range(result)

\* No row of the table satisfies the criteria as the query reads them.
NoRowSatisfies(table, f) ==
    \A i \in 1..Len(table) : ~PrismaMatches(buildWhereClause(f), table[i])

\* No listing of the store satisfies the criteria as the local filter reads
\* them.
NoListingSatisfies(st, f) ==
    \A i \in 1..Len(st) : filterProperties(<<st[i]>>, f) = <<>>

\* C16: when no stored listing satisfies the criteria, the local filter
\* returns the empty sequence, and the remote endpoint, its query having
\* run, answers HTTP 200 with success = true and data = [], never an error
\* status; criteria passed through the API client fail only when the storage
\* engine is unreachable.
C16_EmptyResultIsSuccess ==
    /\ LocalFilterRan /\ NoListingSatisfies(store, filters) => result = <<>>
    /\ (ControllerRan \/ ApiClientRan) /\ NoRowSatisfies(db, decoded)
            /\ thrown = "none" =>
          /\ response.status = 200
          /\ response.success
          /\ response.data = <<>>
    /\ ApiClientRan /\ NoRowSatisfies(db, decoded) =>
          /\ thrown \in {"none", "storage unreachable"}
          /\ result = <<>>

C16_Witness ==
    /\ ControllerRan
    /\ db = <<Listing2, Listing3>>
    /\ params = [NoParams EXCEPT !.propertyType = Some(casa)]
    /\ response = OkResponse(<<>>)

---------------------------------------------------------------------------
(* REST API: schemas, responses and repository (Module 3 backend)          *)

\* Number of requests the backend serves in one behaviour.
MaxRequests == 2

piscina == <<"p","i","s","c","i","n","a">>
garage == <<"g","a","r","a","g","e">>
terraza == <<"t","e","r","r","a","z","a">>
AMENITIES ==
    {piscina, garage, terraza,
     <<"j","a","r","d","i","n">>,
     <<"s","e","g","u","r","i","d","a","d">>,
     <<"g","i","m","n","a","s","i","o">>,
     <<"a","s","c","e","n","s","o","r">>,
     <<"a","i","r","e","_","a","c","o","n","d","i","c","i","o","n","a","d","o">>,
     <<"c","a","l","e","f","a","c","c","i","o","n">>,
     <<"a","m","u","e","b","l","a","d","o">>}

sauna == <<"s","a","u","n","a">>
urlPhoto == <<"h","t","t","p","s",":","/","/","a",".","e","s","/","1",".","j","p","g">>
urlQuoted == <<"h","t","t","p","s",":","/","/","a",".","e","s","/","\"","1","\"">>
txtFoto == <<"f","o","t","o">>
titleValid == Listing1.title
titleShort == <<"C","a","s","a">>
descriptionValid ==
    <<"C","a","s","a"," ","l","u","m","i","n","o","s","a"," ","c","o","n"," ","v","i","s","t","a","s"," ","a"," ","l","a"," ","p","l","a","y","a"," ","y"," ","j","a","r","d","i","n"," ","p","r","o","p","i","o">>
descriptionOther ==
    <<"A","p","a","r","t","a","m","e","n","t","o"," ","r","e","f","o","r","m","a","d","o"," ","j","u","n","t","o"," ","a","l"," ","p","a","r","q","u","e",","," ","m","u","y"," ","t","r","a","n","q","u","i","l","o">>
addressValid == Listing1.address

IsLetter(c) == \E i \in 1..26 : upperChars[i] = c \/ lowerChars[i] = c

\* z.string().url(): the text parses as a URL, which asks for a scheme of
\* letters followed by a colon.
IsUrl(s) ==
    \E i \in 2..Len(s) : s[i] = ":" /\ \A j \in 1..(i - 1) : IsLetter(s[j])

\* The keys of createPropertySchema; a request body holds each of them or
\* not.
BodyKeys ==
    {"title", "description", "propertyType", "operationType", "price",
     "address", "city", "bedrooms", "bathrooms", "area", "amenities", "images"}
NoBody == [k \in BodyKeys |-> Undefined]

\* The rule of createPropertySchema for the value of one key.
FieldValid(k, v) ==
    CASE k = "title" -> Len(v) >= 10 /\ Len(v) <= 100
      [] k = "description" -> Len(v) >= 50 /\ Len(v) <= 2000
      [] k = "propertyType" -> v \in PROPERTY_TYPES
      [] k = "operationType" -> v \in OPERATION_TYPES
      [] k = "price" -> v > 0 /\ v <= 100000000
      [] k = "address" -> Len(v) >= 10
      [] k = "city" -> Len(v) >= 2
      [] k = "bedrooms" -> v >= 0 /\ v <= 20
      [] k = "bathrooms" -> v >= 0 /\ v <= 20
      [] k = "area" -> v > 0 /\ v <= 100000
      [] k = "amenities" -> \A i \in 1..Len(v) : v[i] \in AMENITIES
      [] k = "images" -> \A i \in 1..Len(v) : IsUrl(v[i])

\* The keys declared with .default(...), and their defaults.
DefaultedKeys == {"bedrooms", "bathrooms", "amenities", "images"}
DefaultOf(k) == IF k \in {"bedrooms", "bathrooms"} THEN Some(0) ELSE Some(<<>>)
WithDefaults(body) ==
    [k \in BodyKeys |->
        IF body[k] = Undefined /\ k \in DefaultedKeys THEN DefaultOf(k) ELSE body[k]]

\* createPropertySchema.safeParse(body): the keys with an issue (a required
\* key missing, a value failing its rule) and, when there is none, the data.
createPropertySchema(body) ==
    [issues |-> {k \in BodyKeys :
                    \/ body[k] = Undefined /\ k \notin DefaultedKeys
                    \/ body[k] # Undefined /\ ~FieldValid(k, body[k][1])},
     data |-> WithDefaults(body)]

\* updatePropertySchema = createPropertySchema.partial(): every key is
\* optional.  Whether a key with a default that the body leaves out comes
\* back absent or as its default depends on the release of the schema
\* library, so both are results the build can give.
updatePropertySchema(body) ==
    {[issues |-> {k \in BodyKeys : body[k] # Undefined /\ ~FieldValid(k, body[k][1])},
      data |-> d] : d \in {body, WithDefaults(body)}}

\* The responses of the controller besides those of the listing.
NotFoundResponse ==
    [status |-> 404, success |-> FALSE, code |-> "NOT_FOUND",
     message |-> "Propiedad no encontrada", data |-> <<>>]
CreatedResponse(property) ==
    [status |-> 201, success |-> TRUE, code |-> "", message |-> "", data |-> <<property>>]
DeletedResponse ==
    [status |-> 200, success |-> TRUE, code |-> "",
     message |-> "Propiedad eliminada correctamente", data |-> <<>>]
ValidationErrorResponse(issues) ==
    [status |-> 400, success |-> FALSE, code |-> "VALIDATION_ERROR",
     message |-> "Datos de entrada inválidos", data |-> <<>>, details |-> issues]

\* errorHandler(err, req, res, next): the response it sends.
errorHandler(err) ==
    LET statusCode == IF IsDefined(err.statusCode) THEN err.statusCode[1] ELSE 500
    IN  [status |-> statusCode, success |-> FALSE,
         code |-> IF IsDefined(err.code) THEN err.code[1] ELSE "INTERNAL_ERROR",
         message |-> IF statusCode = 500 THEN "Error interno del servidor"
                     ELSE err.message,
         data |-> <<>>]

\* Errors that reach the error middleware: a failed connection (a system
\* error, which carries a code), a programming error (no code), and a body
\* that does not parse (which carries its own status).
NoError == [message |-> "", code |-> Undefined, statusCode |-> Undefined]
Errors ==
    {[message |-> "connect ECONNREFUSED", code |-> Some("ECONNREFUSED"),
      statusCode |-> Undefined],
     [message |-> "Cannot read properties of undefined", code |-> Undefined,
      statusCode |-> Undefined],
     [message |-> "Unexpected token in JSON", code |-> Undefined,
      statusCode |-> Some(400)]}

\* toPrismaData: the data with amenities and images, when given, as JSON text.
toPrismaData(data) ==
    [k \in DOMAIN data |->
        IF k \in {"amenities", "images"} /\ IsDefined(data[k])
        THEN Some(JsonStringify(data[k][1]))
        ELSE data[k]]

\* A lookup that gives the first row of the table whatever the identifier.
findFirst(table, id) == IF table = <<>> THEN Undefined ELSE Some(table[1])

\* prisma.property.findUnique({ where: { id } }): the row, or null.
findUnique(table, id) ==
    IF \E i \in 1..Len(table) : table[i].id = id
    THEN Some(table[CHOOSE i \in 1..Len(table) : table[i].id = id])
    ELSE Undefined

\* The identifiers the database gives to the rows it creates, in order.
NewIds == <<"n1", "n2", "n3", "n4", "n5", "n6">>

\* prisma.property.create({ data }): the row created, with the identifier and
\* the timestamps the database gives it.
PrismaCreate(prismaData, id, now) ==
    [k \in BodyKeys \cup {"id", "createdAt", "updatedAt"} |->
        IF k = "id" THEN id
        ELSE IF k \in {"createdAt", "updatedAt"} THEN now
        ELSE prismaData[k][1]]

\* prisma.property.update({ where: { id }, data }): the row with the given
\* keys replaced and updatedAt refreshed.
PrismaUpdate(row, prismaData, now) ==
    [k \in DOMAIN row |->
        IF k \in BodyKeys /\ IsDefined(prismaData[k]) THEN prismaData[k][1]
        ELSE IF k = "updatedAt" THEN now
        ELSE row[k]]

ReplaceRow(table, row) ==
    [i \in 1..Len(table) |-> IF table[i].id = row.id THEN row ELSE table[i]]
RemoveRow(table, id) == SelectSeq(table, LAMBDA r : r.id # id)

---------------------------------------------------------------------------
(* REST API: the requests and their handlers                               *)

\* Bodies a client may send: two that pass createPropertySchema (the second
\* leaves out the keys that have defaults), one that fails it, two partial
\* bodies that pass updatePropertySchema and one that fails it.
BodyFull ==
    [NoBody EXCEPT !.title = Some(titleValid), !.description = Some(descriptionValid),
                   !.propertyType = Some(casa), !.operationType = Some(venta),
                   !.price = Some(250000), !.address = Some(addressValid),
                   !.city = Some(cityValencia), !.bedrooms = Some(3),
                   !.bathrooms = Some(2), !.area = Some(120),
                   !.amenities = Some(<<piscina, garage>>),
                   !.images = Some(<<urlQuoted>>)]
BodyWithoutDefaulted ==
    [NoBody EXCEPT !.title = Some(titleValid), !.description = Some(descriptionOther),
                   !.propertyType = Some(apartamento), !.operationType = Some(alquiler),
                   !.price = Some(100000), !.address = Some(addressValid),
                   !.city = Some(cityAvila), !.area = Some(60)]
BodyInvalid ==
    [BodyFull EXCEPT !.title = Some(titleShort), !.amenities = Some(<<sauna>>),
                     !.images = Some(<<txtFoto>>)]
PatchArrays ==
    [NoBody EXCEPT !.price = Some(260000), !.amenities = Some(<<terraza>>),
                   !.images = Some(<<urlPhoto, urlQuoted>>)]
PatchPrice == [NoBody EXCEPT !.price = Some(260000)]
PatchInvalid == [NoBody EXCEPT !.price = Some(0)]

\* The rows of the table when the backend starts (its seed).
SeedRow1 == PrismaCreate(toPrismaData(WithDefaults(BodyFull)), "p1", 0)
SeedRow2 == PrismaCreate(toPrismaData(WithDefaults(BodyWithoutDefaulted)), "p2", 0)
InitialTables == {<<>>, <<SeedRow1>>, <<SeedRow1, SeedRow2>>}

\* An identifier no row has and the database never gives.
UnknownId == "unknown"

\* A request as it arrives: nothing done, nothing sent.
Request(method, id, body, err) ==
    [method |-> method, id |-> id, body |-> body, err |-> err,
     pc |-> "received", thrown |-> "none", storageCalls |-> 0,
     sent |-> <<>>, data |-> NoBody]

IncomingRequests ==
    {Request("GET /api/properties", "", NoBody, NoError)}
        \cup {Request("GET /api/properties/:id", id, NoBody, NoError) :
                id \in {"p1", UnknownId}}
        \cup {Request("POST /api/properties", "", b, NoError) :
                b \in {BodyFull, BodyWithoutDefaulted, BodyInvalid}}
        \cup {Request("PUT /api/properties/:id", "p1", b, NoError) :
                b \in {PatchArrays, PatchPrice, PatchInvalid}}
        \cup {Request("PUT /api/properties/:id", UnknownId, PatchArrays, NoError)}
        \cup {Request("DELETE /api/properties/:id", id, NoBody, NoError) :
                id \in {"p1", UnknownId}}
        \cup {Request("unhandled error", "", NoBody, e) : e \in Errors}

NoCall == [fn |-> "none", arg |-> NoFilters]

\* The table as seeded and MaxRequests requests received, none served yet.
InitApi ==
    /\ db \in InitialTables
    /\ requests \in [1..MaxRequests -> IncomingRequests]
    /\ clock = 1
    /\ store = <<>>
    /\ call = NoCall
    /\ op = "none"
    /\ filters = NoFilters
    /\ params = NoParams
    /\ decoded = NoFilters
    /\ thrown = "none"
    /\ response = NoResponse
    /\ result = <<>>
    /\ importPending = FALSE
    /\ HomeClosed /\ ExplorerClosed /\ DebounceUnused

\* The request after its handler sent a response, having caught the error
\* th (or none) and made the given number of storage calls in this step.
Finish(r, resp, th, calls) ==
    [r EXCEPT !.pc = "done", !.thrown = th,
              !.storageCalls = @ + calls, !.sent = Append(@, resp)]

Received(i, method) == requests[i].pc = "received" /\ requests[i].method = method

otherVars == <<store, op, result, importPending, pageVars>>

\* The listing handler querying a second time when the first query throws.
ServeGetAllPropertiesRetrying(i) ==
    /\ Received(i, "GET /api/properties")
    /\ \E first, second \in FindAllOutcomes(db, DecodeQuery(NoParams)) :
          requests' = [requests EXCEPT ![i] =
              IF first.thrown = "none"
              THEN Finish(@, ControllerResponse(first), first.thrown, 1)
              ELSE Finish(@, ControllerResponse(second), second.thrown, 2)]
    /\ UNCHANGED <<db, clock>>
    /\ UNCHANGED filterVars
    /\ UNCHANGED otherVars

\* Controller getAllProperties on a request without query parameters: one
\* await of findAll inside try, one response in either branch.
ServeGetAllProperties(i) ==
    /\ Received(i, "GET /api/properties")
    /\ \E outcome \in FindAllOutcomes(db, DecodeQuery(NoParams)) :
          requests' = [requests EXCEPT ![i] =
              Finish(@, ControllerResponse(outcome), outcome.thrown, 1)]
    /\ UNCHANGED <<db, clock>>
    /\ UNCHANGED filterVars
    /\ UNCHANGED otherVars

\* Controller getPropertyById: findById throws, finds nothing or finds the row.
ServeGetPropertyById(i) ==
    /\ Received(i, "GET /api/properties/:id")
    /\ \E fails \in BOOLEAN :
          LET found == findUnique(db, requests[i].id)
          IN  requests' = [requests EXCEPT ![i] =
                  IF fails
                  THEN Finish(@, InternalErrorResponse, "storage unreachable", 1)
                  ELSE IF found = Undefined
                       THEN Finish(@, NotFoundResponse, "none", 1)
                       ELSE Finish(@, OkResponse(<<toProperty(found[1])>>), "none", 1)]
    /\ UNCHANGED <<db, clock>>
    /\ UNCHANGED filterVars
    /\ UNCHANGED otherVars

\* A create handler that stores the body without parsing it with the schema.
ServeCreatePropertyUnvalidated(i) ==
    /\ Received(i, "POST /api/properties")
    /\ clock <= Len(NewIds)
    /\ LET data == WithDefaults(requests[i].body)
           row == PrismaCreate(toPrismaData(data), NewIds[clock], clock)
       IN  /\ requests' = [requests EXCEPT ![i] =
                  Finish([@ EXCEPT !.data = data],
                         CreatedResponse(toProperty(row)), "none", 1)]
           /\ db' = Append(db, row)
           /\ clock' = clock + 1
    /\ UNCHANGED filterVars
    /\ UNCHANGED otherVars

\* Controller createProperty: 400 when the body fails the schema, else
\* repository.create (toPrismaData, prisma.create, toProperty) and 201.
ServeCreateProperty(i) ==
    /\ Received(i, "POST /api/properties")
    /\ clock <= Len(NewIds)
    /\ LET parsed == createPropertySchema(requests[i].body)
           row == PrismaCreate(toPrismaData(parsed.data), NewIds[clock], clock)
       IN  IF parsed.issues # {}
           THEN /\ requests' = [requests EXCEPT ![i] =
                       Finish(@, ValidationErrorResponse(parsed.issues), "none", 0)]
                /\ UNCHANGED <<db, clock>>
           ELSE \E fails \in BOOLEAN :
                   IF fails
                   THEN /\ requests' = [requests EXCEPT ![i] =
                               Finish(@, InternalErrorResponse, "storage unreachable", 1)]
                        /\ UNCHANGED <<db, clock>>
                   ELSE /\ requests' = [requests EXCEPT ![i] =
                               Finish([@ EXCEPT !.data = parsed.data],
                                      CreatedResponse(toProperty(row)), "none", 1)]
                        /\ db' = Append(db, row)
                        /\ clock' = clock + 1
    /\ UNCHANGED filterVars
    /\ UNCHANGED otherVars

\* Controller updateProperty up to the first await of repository.update:
\* 400 when the body fails the schema, else findUnique, and 404 when it
\* finds nothing.
ServeUpdatePropertyFind(i) ==
    /\ Received(i, "PUT /api/properties/:id")
    /\ \E parsed \in updatePropertySchema(requests[i].body) :
          IF parsed.issues # {}
          THEN requests' = [requests EXCEPT ![i] =
                   Finish(@, ValidationErrorResponse(parsed.issues), "none", 0)]
          ELSE \E fails \in BOOLEAN :
                  requests' = [requests EXCEPT ![i] =
                      IF fails
                      THEN Finish(@, InternalErrorResponse, "storage unreachable", 1)
                      ELSE IF findUnique(db, requests[i].id) = Undefined
                           THEN Finish(@, NotFoundResponse, "none", 1)
                           ELSE [@ EXCEPT !.pc = "found", !.data = parsed.data,
                                          !.storageCalls = @ + 1]]
    /\ UNCHANGED <<db, clock>>
    /\ UNCHANGED filterVars
    /\ UNCHANGED otherVars

\* repository.update after findUnique found the row: prisma.update, which
\* throws when the row is no longer there, then toProperty and 200.
ServeUpdatePropertyWrite(i) ==
    /\ requests[i].pc = "found"
    /\ requests[i].method = "PUT /api/properties/:id"
    /\ clock <= Len(NewIds)
    /\ \E fails \in BOOLEAN :
          LET found == findUnique(db, requests[i].id)
              row == PrismaUpdate(found[1], toPrismaData(requests[i].data), clock)
          IN  IF fails \/ found = Undefined
              THEN /\ requests' = [requests EXCEPT ![i] =
                          Finish(@, InternalErrorResponse,
                                 IF fails THEN "storage unreachable"
                                 ELSE "record not found", 1)]
                   /\ UNCHANGED <<db, clock>>
              ELSE /\ requests' = [requests EXCEPT ![i] =
                          Finish(@, OkResponse(<<toProperty(row)>>), "none", 1)]
                   /\ db' = ReplaceRow(db, row)
                   /\ clock' = clock + 1
    /\ UNCHANGED filterVars
    /\ UNCHANGED otherVars

\* Controller deleteProperty up to the first await of repository.delete:
\* findUnique, and 404 when it finds nothing.
ServeDeletePropertyFind(i) ==
    /\ Received(i, "DELETE /api/properties/:id")
    /\ \E fails \in BOOLEAN :
          requests' = [requests EXCEPT ![i] =
              IF fails
              THEN Finish(@, InternalErrorResponse, "storage unreachable", 1)
              ELSE IF findUnique(db, requests[i].id) = Undefined
                   THEN Finish(@, NotFoundResponse, "none", 1)
                   ELSE [@ EXCEPT !.pc = "found", !.storageCalls = @ + 1]]
    /\ UNCHANGED <<db, clock>>
    /\ UNCHANGED filterVars
    /\ UNCHANGED otherVars

\* repository.delete after findUnique found the row: prisma.delete, which
\* throws when the row is no longer there, then 200.
ServeDeletePropertyWrite(i) ==
    /\ requests[i].pc = "found"
    /\ requests[i].method = "DELETE /api/properties/:id"
    /\ \E fails \in BOOLEAN :
          IF fails \/ findUnique(db, requests[i].id) = Undefined
          THEN /\ requests' = [requests EXCEPT ![i] =
                      Finish(@, InternalErrorResponse,
                             IF fails THEN "storage unreachable"
                             ELSE "record not found", 1)]
               /\ UNCHANGED db
          ELSE /\ requests' = [requests EXCEPT ![i] =
                      Finish(@, DeletedResponse, "none", 1)]
               /\ db' = RemoveRow(db, requests[i].id)
    /\ UNCHANGED clock
    /\ UNCHANGED filterVars
    /\ UNCHANGED otherVars

\* An error thrown outside the handlers' try blocks reaches errorHandler.
ServeErrorHandler(i) ==
    /\ Received(i, "unhandled error")
    /\ requests' = [requests EXCEPT ![i] =
          Finish(@, errorHandler(requests[i].err), requests[i].err.message, 0)]
    /\ UNCHANGED <<db, clock>>
    /\ UNCHANGED filterVars
    /\ UNCHANGED otherVars

NextApi ==
    \E i \in 1..MaxRequests :
        \/ ServeGetAllProperties(i)
        \/ ServeGetPropertyById(i)
        \/ ServeCreateProperty(i)
        \/ ServeUpdatePropertyFind(i)
        \/ ServeUpdatePropertyWrite(i)
        \/ ServeDeletePropertyFind(i)
        \/ ServeDeletePropertyWrite(i)
        \/ ServeErrorHandler(i)

SpecApi == InitApi /\ [][NextApi]_vars

---------------------------------------------------------------------------
(* Claims on the REST API                                                  *)

Served(i, method) == requests[i].pc = "done" /\ requests[i].method = method

\* C14: when the storage query of GET /api/properties fails, the handler has
\* made exactly one storage call and sent exactly one response, which is
\* HTTP 500 with success = false, code INTERNAL_ERROR and no data.
C14_ListingFailureAnsweredOnce ==
    \A i \in DOMAIN requests :
        Served(i, "GET /api/properties") /\ requests[i].thrown # "none" =>
            /\ requests[i].storageCalls = 1
            /\ Len(requests[i].sent) = 1
            /\ requests[i].sent[1].status = 500
            /\ requests[i].sent[1].success = FALSE
            /\ requests[i].sent[1].code = "INTERNAL_ERROR"
            /\ requests[i].sent[1].data = <<>>

C14_Witness ==
    /\ db = <<SeedRow1, SeedRow2>>
    /\ \E i \in DOMAIN requests :
          /\ Served(i, "GET /api/properties")
          /\ requests[i].thrown = "storage unreachable"
          /\ requests[i].sent = <<InternalErrorResponse>>

\* C15: any two HTTP 500 responses have the same body, whatever the errors
\* behind them.
C15_InternalErrorBodiesIdentical ==
    \A i, j \in DOMAIN requests :
        /\ requests[i].pc = "done" /\ requests[i].sent[1].status = 500
        /\ requests[j].pc = "done" /\ requests[j].sent[1].status = 500
        => requests[i].sent[1] = requests[j].sent[1]

\* C17: a listing created or updated through the repository comes back with
\* amenities and images equal, element by element and in order, to the
\* arrays handed to the repository, and the table holds them as JSON text.
C17_ArraysSurvivePersistence ==
    /\ \A i \in DOMAIN requests :
          /\ Served(i, "POST /api/properties") /\ requests[i].sent[1].status = 201 =>
                \A k \in {"amenities", "images"} :
                    requests[i].sent[1].data[1][k] = requests[i].data[k][1]
          /\ Served(i, "PUT /api/properties/:id") /\ requests[i].sent[1].status = 200 =>
                \A k \in {"amenities", "images"} :
                    IsDefined(requests[i].data[k]) =>
                        requests[i].sent[1].data[1][k] = requests[i].data[k][1]
    /\ \A n \in 1..Len(db) :
          \A k \in {"amenities", "images"} :
              JsonStringify(toProperty(db[n])[k]) = db[n][k]

C17_Witness ==
    \E i, j \in DOMAIN requests :
        /\ Served(i, "POST /api/properties")
        /\ requests[i].body = BodyFull
        /\ requests[i].sent[1].status = 201
        /\ requests[i].sent[1].data[1].images = <<urlQuoted>>
        /\ Served(j, "PUT /api/properties/:id")
        /\ requests[j].body = PatchArrays
        /\ requests[j].sent[1].status = 200
        /\ requests[j].sent[1].data[1].amenities = <<terraza>>
        /\ requests[j].sent[1].data[1].images = <<urlPhoto, urlQuoted>>

\* A request on /api/properties/:id for the unknown identifier whose body,
\* if it has one, passes the schema.
OnUnknownId(r) ==
    /\ r.id = UnknownId
    /\ r.method \in {"GET /api/properties/:id", "PUT /api/properties/:id",
                     "DELETE /api/properties/:id"}
    /\ \A parsed \in updatePropertySchema(r.body) : parsed.issues = {}

\* C20: a GET, a PUT with a valid body or a DELETE for an identifier no row
\* has is answered, the storage engine being reachable, with HTTP 404,
\* success = false and code NOT_FOUND, and no step of it changes the table.
C20_UnknownIdNotFound ==
    /\ [](\A i \in DOMAIN requests :
            OnUnknownId(requests[i]) /\ requests[i].pc = "done"
                /\ requests[i].thrown = "none" =>
                /\ Len(requests[i].sent) = 1
                /\ requests[i].sent[1].status = 404
                /\ requests[i].sent[1].success = FALSE
                /\ requests[i].sent[1].code = "NOT_FOUND")
    /\ [][\A i \in DOMAIN requests :
            OnUnknownId(requests[i]) /\ requests'[i] # requests[i] => db' = db]_vars

C20_Witness ==
    /\ db = <<SeedRow1, SeedRow2>>
    /\ \E i, j \in DOMAIN requests :
          /\ Served(i, "PUT /api/properties/:id")
          /\ requests[i].id = UnknownId
          /\ requests[i].sent = <<NotFoundResponse>>
          /\ Served(j, "DELETE /api/properties/:id")
          /\ requests[j].id = UnknownId
          /\ requests[j].sent = <<NotFoundResponse>>

\* A POST or PUT whose body fails the schema of its route.
FailsValidation(r) ==
    \/ r.method = "POST /api/properties" /\ createPropertySchema(r.body).issues # {}
    \/ /\ r.method = "PUT /api/properties/:id"
       /\ \E parsed \in updatePropertySchema(r.body) : parsed.issues # {}

\* C21: a POST or PUT whose body fails schema validation is answered with
\* HTTP 400, code VALIDATION_ERROR and the fields at fault as details, makes
\* no storage call and no step of it changes the table; a POST whose body
\* passes validation is answered, the storage engine being reachable, with
\* HTTP 201 and the listing of the row it appended to the table.
C21_WritePathValidation ==
    /\ [](\A i \in DOMAIN requests :
            /\ FailsValidation(requests[i]) /\ requests[i].pc = "done" =>
                  /\ Len(requests[i].sent) = 1
                  /\ requests[i].sent[1].status = 400
                  /\ requests[i].sent[1].success = FALSE
                  /\ requests[i].sent[1].code = "VALIDATION_ERROR"
                  /\ "details" \in DOMAIN requests[i].sent[1]
                  /\ requests[i].sent[1].details # {}
                  /\ requests[i].sent[1].details \subseteq BodyKeys
                  /\ \A k \in requests[i].sent[1].details :
                        \/ requests[i].body[k] = Undefined
                        \/ ~FieldValid(k, requests[i].body[k][1])
                  /\ requests[i].storageCalls = 0
            /\ Served(i, "POST /api/properties") /\ ~FailsValidation(requests[i])
                  /\ requests[i].thrown = "none" =>
                  /\ Len(requests[i].sent) = 1
                  /\ requests[i].sent[1].status = 201
                  /\ requests[i].sent[1].success = TRUE
                  /\ \A k \in BodyKeys :
                        IsDefined(requests[i].body[k]) =>
                            requests[i].sent[1].data[1][k] = requests[i].body[k][1])
    /\ [][\A i \in DOMAIN requests :
            /\ FailsValidation(requests[i]) /\ requests'[i] # requests[i] => db' = db
            /\ requests[i].method = "POST /api/properties"
                  /\ requests'[i] # requests[i] /\ requests'[i].sent[1].status = 201 =>
                  /\ Len(db') = Len(db) + 1
                  /\ SubSeq(db', 1, Len(db)) = db
                  /\ toProperty(db'[Len(db')]) = requests'[i].sent[1].data[1]]_vars

C21_Witness ==
    /\ db = <<SeedRow1, SeedRow2>>
    /\ \E i, j \in DOMAIN requests :
          /\ Served(i, "POST /api/properties")
          /\ requests[i].body = BodyInvalid
          /\ requests[i].sent = <<ValidationErrorResponse({"title", "amenities", "images"})>>
          /\ Served(j, "PUT /api/properties/:id")
          /\ requests[j].body = PatchInvalid
          /\ requests[j].sent = <<ValidationErrorResponse({"price"})>>

\* C26: two DELETE requests for the same id, served concurrently with the
\* storage engine reachable, are answered one with 200 and the other with
\* 404 NOT_FOUND (both with 404 when no row had the id), and neither with 500.
C26_ConcurrentDeletesOneWins ==
    \A i, j \in DOMAIN requests :
        /\ i # j
        /\ Served(i, "DELETE /api/properties/:id")
        /\ Served(j, "DELETE /api/properties/:id")
        /\ requests[i].id = requests[j].id
        /\ requests[i].thrown # "storage unreachable"
        /\ requests[j].thrown # "storage unreachable"
        => /\ {requests[i].sent[1].status, requests[j].sent[1].status}
                  \in {{200, 404}, {404}}
           /\ \A k \in {i, j} :
                 requests[k].sent[1].status = 404 =>
                     requests[k].sent[1].code = "NOT_FOUND"

---------------------------------------------------------------------------
(* Local store: the CRUD operations of storage.ts and the sample data      *)

\* Largest number of listings the local store holds.
MaxStored == 2
\* Last millisecond of a behaviour.
MaxClock == 2

\* Math.random().toString(36).substring(2, 9): the suffixes it may give.
RandomSuffixes == {<<"k","3","x","9","q","2","a">>, <<"0","b","5","w","1","z","7">>}

\* generateId: `${Date.now()}-${suffix}`.
generateId(now, suffix) == NatToString(now) \o <<"-">> \o suffix

\* { ...f, ...g }: the keys of both, those of g winning.
Spread(f, g) ==
    [k \in DOMAIN f \cup DOMAIN g |-> IF k \in DOMAIN g THEN g[k] ELSE f[k]]

\* The input of a listing: its attributes but id and timestamps.
InputOf(L) == [k \in DOMAIN L \ {"id", "createdAt", "updatedAt"} |-> L[k]]
CreateInputs == {InputOf(Listing1)}

\* Partial inputs of an update: the keys to replace.
UpdateInputs == {[price |-> 260000, bedrooms |-> 4]}

\* The sample listings (two of them), newest first as the file has them;
\* their dates are past.
sampleProperties ==
    <<Spread([InputOf(Listing2) EXCEPT !.price = 450000],
             [id |-> <<"s","a","m","p","l","e","-","1">>, createdAt |-> 1, updatedAt |-> 1]),
      Spread(InputOf(Listing3),
             [id |-> <<"s","a","m","p","l","e","-","2">>, createdAt |-> 0, updatedAt |-> 0])>>

\* An identifier no listing has.
MissingId == <<"m","i","s","s","i","n","g">>

\* storage.ts createProperty: the new listing and the array to save.
NewProperty(input, id, createdAt, updatedAt) ==
    Spread(input, [id |-> id, createdAt |-> createdAt, updatedAt |-> updatedAt])
createProperty(st, input, id, createdAt, updatedAt) ==
    Append(getAllProperties(st), NewProperty(input, id, createdAt, updatedAt))

\* properties.findIndex((p) => p.id === id): the first index, or 0 for none.
findIndex(st, id) ==
    IF \E i \in 1..Len(st) : st[i].id = id
    THEN CHOOSE i \in 1..Len(st) : st[i].id = id /\ \A j \in 1..(i - 1) : st[j].id # id
    ELSE 0

\* An update that lets the input decide every key and leaves updatedAt.
UpdatedPropertyKeepingUpdatedAt(existing, input, now) ==
    [k \in DOMAIN existing |-> IF k \in DOMAIN input THEN input[k] ELSE existing[k]]

\* { ...existingProperty, ...input, updatedAt: new Date().toISOString() }
UpdatedProperty(existing, input, now) ==
    [k \in DOMAIN existing |->
        IF k = "updatedAt" THEN now
        ELSE IF k \in DOMAIN input THEN input[k]
        ELSE existing[k]]

\* An update that merges the input into every listing of the store.
updateEveryProperty(st, id, input, now) ==
    [i \in 1..Len(st) |-> UpdatedProperty(st[i], input, now)]

\* storage.ts updateProperty, when the listing exists: the array to save.
updateProperty(st, id, input, now) ==
    [getAllProperties(st) EXCEPT ![findIndex(st, id)] = UpdatedProperty(@, input, now)]

\* storage.ts deleteProperty: the array without the listings of that id.
deleteProperty(st, id) == SelectSeq(getAllProperties(st), LAMBDA p : p.id # id)

\* storage.ts getPropertyById: properties.find((p) => p.id === id).
getPropertyById(st, id) ==
    IF findIndex(getAllProperties(st), id) = 0 THEN Undefined
    ELSE Some(getAllProperties(st)[findIndex(getAllProperties(st), id)])

apiVars == <<db, requests, pageVars>>

InitLocal ==
    /\ store = <<>>
    /\ clock = 1
    /\ importPending = FALSE
    /\ op = "none"
    /\ result = <<>>
    /\ db = <<>>
    /\ requests = <<>>
    /\ call = NoCall
    /\ filters = NoFilters
    /\ params = NoParams
    /\ decoded = NoFilters
    /\ thrown = "none"
    /\ response = NoResponse
    /\ HomeClosed /\ ExplorerClosed /\ DebounceUnused

\* A millisecond passes.
Tick ==
    /\ clock < MaxClock
    /\ clock' = clock + 1
    /\ UNCHANGED <<store, op, result, importPending>>
    /\ UNCHANGED filterVars
    /\ UNCHANGED apiVars

\* The instants a later reading of the clock may give.
Later(t) == {u \in {t, t + 1} : u <= MaxClock}

\* createProperty(input): generateId, the two timestamps (each a reading of
\* the clock), push and saveProperties, which may throw.
LocalCreateProperty ==
    /\ Len(store) < MaxStored
    /\ \E input \in CreateInputs, suffix \in RandomSuffixes, fails \in BOOLEAN :
          \E createdAt \in Later(clock) :
              \E updatedAt \in Later(createdAt) :
                  LET id == generateId(clock, suffix)
                  IN  /\ clock' = updatedAt
                      /\ IF fails
                         THEN /\ op' = "createProperty threw"
                              /\ UNCHANGED store
                         ELSE /\ op' = "createProperty"
                              /\ store' = createProperty(store, input, id, createdAt, updatedAt)
    /\ UNCHANGED <<importPending, result>>
    /\ call' = NoCall
    /\ UNCHANGED <<filters, params, decoded, thrown, response>>
    /\ UNCHANGED apiVars

\* updateProperty(id, input): null when no listing has the id, else the
\* merged listing is saved (saveProperties may throw) and returned.  The
\* call and its id are kept in `call` until the next operation.
LocalUpdateProperty ==
    /\ \E id \in {store[i].id : i \in 1..Len(store)} \cup {MissingId},
          input \in UpdateInputs, fails \in BOOLEAN :
          /\ call' = [fn |-> "updateProperty", arg |-> id]
          /\ IF findIndex(store, id) = 0
             THEN /\ op' = "updateProperty returned null"
                  /\ UNCHANGED store
             ELSE IF fails
                  THEN /\ op' = "updateProperty threw"
                       /\ UNCHANGED store
                  ELSE /\ op' = "updateProperty"
                       /\ store' = updateProperty(store, id, input, clock)
    /\ UNCHANGED <<clock, importPending, result>>
    /\ UNCHANGED <<filters, params, decoded, thrown, response>>
    /\ UNCHANGED apiVars

\* deleteProperty(id): false when no listing has the id, else the filtered
\* array is saved (saveProperties may throw) and true returned.
LocalDeleteProperty ==
    /\ \E id \in {store[i].id : i \in 1..Len(store)} \cup {MissingId},
          fails \in BOOLEAN :
          /\ call' = [fn |-> "deleteProperty", arg |-> id]
          /\ IF Len(deleteProperty(store, id)) = Len(store)
             THEN /\ op' = "deleteProperty returned false"
                  /\ UNCHANGED store
             ELSE IF fails
                  THEN /\ op' = "deleteProperty threw"
                       /\ UNCHANGED store
                  ELSE /\ op' = "deleteProperty"
                       /\ store' = deleteProperty(store, id)
    /\ UNCHANGED <<clock, importPending, result>>
    /\ UNCHANGED <<filters, params, decoded, thrown, response>>
    /\ UNCHANGED apiVars

\* initializeWithSampleData(): returns when the store holds a listing, else
\* starts the import of the sample data.
InitializeWithSampleData ==
    /\ op' = "initializeWithSampleData"
    /\ importPending' = (importPending \/ Len(getAllProperties(store)) = 0)
    /\ UNCHANGED <<store, clock, result>>
    /\ call' = NoCall
    /\ UNCHANGED <<filters, params, decoded, thrown, response>>
    /\ UNCHANGED apiVars

\* The import resolves: saveProperties(sampleData), which may throw.
ImportResolves ==
    /\ importPending
    /\ importPending' = FALSE
    /\ op' = "saveProperties(sampleData)"
    /\ \E fails \in BOOLEAN : store' = IF fails THEN store ELSE sampleProperties
    /\ UNCHANGED <<clock, result>>
    /\ call' = NoCall
    /\ UNCHANGED <<filters, params, decoded, thrown, response>>
    /\ UNCHANGED apiVars

NextLocal ==
    \/ Tick
    \/ LocalCreateProperty
    \/ LocalUpdateProperty
    \/ LocalDeleteProperty
    \/ InitializeWithSampleData
    \/ ImportResolves

SpecLocal == InitLocal /\ [][NextLocal]_vars

---------------------------------------------------------------------------
(* Claims on the local store                                               *)

\* C18: after any sequence of local create, update and delete operations and
\* of loads of the sample data, no two stored listings have the same id.
C18_IdentifiersUnique ==
    \A i, j \in 1..Len(store) : i # j => store[i].id # store[j].id

\* C19: every stored listing has updatedAt >= createdAt, and an update
\* leaves every createdAt as it was and sets the updatedAt of the listing it
\* changes to the time of the update (the clock never running backwards).
C19_TimestampsMonotone ==
    /\ [](\A i \in 1..Len(store) : store[i].updatedAt >= store[i].createdAt)
    /\ [][op' = "updateProperty" /\ store' # store =>
            /\ Len(store') = Len(store)
            /\ \A i \in 1..Len(store) :
                  /\ store'[i].createdAt = store[i].createdAt
                  /\ store'[i] # store[i] =>
                        /\ store'[i].updatedAt = clock
                        /\ store'[i].updatedAt >= store[i].updatedAt]_vars

C19_Witness ==
    /\ op = "updateProperty"
    /\ \E i \in 1..Len(store) :
          /\ store[i].price = 260000
          /\ store[i].createdAt = 1
          /\ store[i].updatedAt = 2
    /\ \E i \in 1..Len(store) :
          /\ store[i].price = 250000
          /\ store[i].createdAt = 1
          /\ store[i].updatedAt = 2

\* The listings of the store that createProperty made: those whose id is
\* not the id of a sample listing.
SampleIds == {sampleProperties[i].id : i \in 1..Len(sampleProperties)}
CreatedListings(st) == {st[i] : i \in {j \in 1..Len(st) : st[j].id \notin SampleIds}}

\* C22: the sample listings are written only into an empty store, so no
\* write of the sample data removes or replaces a listing that
\* createProperty stored.
C22_SampleDataOnlyIntoEmptyStore ==
    [][op' = "saveProperties(sampleData)" /\ store' # store =>
            /\ Len(getAllProperties(store)) = 0
            /\ CreatedListings(store) \subseteq CreatedListings(store')]_vars

HasId(st, id) == \E i \in 1..Len(st) : st[i].id = id
OthersOf(st, id) == SelectSeq(st, LAMBDA p : p.id # id)

\* C23: updateProperty(id) and deleteProperty(id) leave every listing with
\* a different id as it was and where it was; when no stored listing has the
\* id they write nothing and return null / false; an update keeps the id
\* and createdAt of every record; and after a delete that returned true
\* getPropertyById(id) is undefined.
C23_MutationsTouchOneRecord ==
    [][/\ LocalUpdateProperty =>
            /\ Len(store') = Len(store)
            /\ \A i \in 1..Len(store) :
                  /\ store[i].id # call'.arg => store'[i] = store[i]
                  /\ store'[i].id = store[i].id
                  /\ store'[i].createdAt = store[i].createdAt
            /\ ~HasId(store, call'.arg) =>
                  store' = store /\ op' = "updateProperty returned null"
            /\ Cardinality({i \in 1..Len(store) : store'[i] # store[i]}) <= 1
       /\ LocalDeleteProperty =>
            /\ OthersOf(store', call'.arg) = OthersOf(store, call'.arg)
            /\ ~HasId(store, call'.arg) =>
                  store' = store /\ op' = "deleteProperty returned false"
            /\ op' = "deleteProperty" =>
                  /\ HasId(store, call'.arg)
                  /\ getPropertyById(store', call'.arg) = Undefined]_vars

C23_Witness ==
    /\ op = "deleteProperty"
    /\ call.fn = "deleteProperty"
    /\ Len(store) = 1
    /\ store[1].id # call.arg
    /\ store[1].id \notin SampleIds
    /\ store[1].price = 260000

---------------------------------------------------------------------------
(* HomePage of Module 3: the filter bar, the loads and the loading flag    *)

\* Largest number of calls of loadProperties in one behaviour.
MaxLoads == 3

txtAll == <<"a","l","l">>

\* The table behind the API while the page is open.
HomeTables == {<<Listing1, Listing2, Listing4>>, <<Listing3>>}

\* handleFilterChange(key, value): the next filters.  The numeric inputs pass
\* a number, which is never 'all'.
handleFilterChange(prev, key, value) ==
    [prev EXCEPT ![key] =
        IF key \in {"minPrice", "maxPrice", "minBedrooms"} THEN Some(value)
        ELSE IF value = txtAll THEN Undefined
        ELSE Some(value)]

\* onChange of a numeric input: e.target.value ? Number(e.target.value) : 0.
NumericInputValue(text) == IF text # <<>> THEN Number(text) ELSE 0

\* The text a numeric input shows: value={filters.x ?? ''}.
ShownInNumericInput(o) == IF o = Undefined THEN <<>> ELSE String(o[1])

\* The texts the user may leave in an input, and the choices of the select.
TypedTexts ==
    [search |-> {txtEmpty, txtMar},
     minPrice |-> {txtEmpty, str150000},
     maxPrice |-> {txtEmpty, str300000},
     minBedrooms |-> {txtEmpty, str2}]
SelectChoices == {txtAll, casa}

\* A call of loadProperties with the filters of its closure, awaiting
\* filterProperties(filters).
NewLoad(f) == [filters |-> f, pc |-> "in flight", thrown |-> "none", result |-> <<>>]

\* The page mounted: empty filters, the loading flag set, and the effect has
\* called loadProperties.
InitHome ==
    /\ db \in HomeTables
    /\ filters = NoFilters
    /\ properties = <<>>
    /\ isLoading = TRUE
    /\ loads = <<NewLoad(NoFilters)>>
    /\ store = <<>>
    /\ call = NoCall
    /\ op = "none"
    /\ params = NoParams
    /\ decoded = NoFilters
    /\ thrown = "none"
    /\ response = NoResponse
    /\ result = <<>>
    /\ requests = <<>>
    /\ clock = 0
    /\ importPending = FALSE
    /\ ExplorerClosed /\ DebounceUnused

restOfHome ==
    <<store, db, call, op, params, decoded, thrown, response, result,
      requests, clock, importPending, explorerVars, debounceVars>>

\* setFilters followed by the effect on the new loadProperties:
\* setIsLoading(true) and the request for the new filters.
SetFiltersAndLoad(f) ==
    /\ Len(loads) < MaxLoads
    /\ filters' = f
    /\ isLoading' = TRUE
    /\ loads' = Append(loads, NewLoad(f))
    /\ UNCHANGED properties
    /\ UNCHANGED restOfHome

\* The user changes the text of the search input.
ChangeSearch ==
    \E text \in TypedTexts.search :
        /\ text # (IF filters.search = Undefined THEN <<>> ELSE filters.search[1])
        /\ SetFiltersAndLoad(handleFilterChange(filters, "search", text))

\* The user picks an entry of the property-type select.
ChangePropertyType ==
    \E choice \in SelectChoices :
        SetFiltersAndLoad(handleFilterChange(filters, "propertyType", choice))

\* The user changes the text of a numeric input (types a number, or clears it).
ChangeNumericInput ==
    \E key \in {"minPrice", "maxPrice", "minBedrooms"} :
        \E text \in TypedTexts[key] :
            /\ text # ShownInNumericInput(filters[key])
            /\ SetFiltersAndLoad(handleFilterChange(filters, key, NumericInputValue(text)))

\* hasFilters: some value is neither undefined nor '' nor 0.
hasFilters(f) ==
    \E k \in FilterKeys :
        /\ f[k] # Undefined
        /\ IF k \in {"minPrice", "maxPrice", "minBedrooms"} THEN f[k][1] # 0
           ELSE f[k][1] # <<>>

\* handleClearFilters; its button is rendered while hasFilters.
HandleClearFilters ==
    /\ hasFilters(filters)
    /\ SetFiltersAndLoad(NoFilters)

\* A load whose request was answered resumes: api.getAllProperties returns
\* the data of a success response and [] otherwise, loadProperties shows
\* them and clears the loading flag.
LoadResolves ==
    \E i \in 1..Len(loads) :
        /\ loads[i].pc = "in flight"
        /\ \E outcome \in FindAllOutcomes(db, DecodeQuery(EncodeParams(loads[i].filters))) :
              LET answer == ControllerResponse(outcome)
                  filtered == IF answer.success THEN answer.data ELSE <<>>
              IN  /\ properties' = filtered
                  /\ loads' = [loads EXCEPT ![i] =
                        [@ EXCEPT !.pc = "done", !.thrown = outcome.thrown,
                                  !.result = filtered]]
        /\ isLoading' = FALSE
        /\ UNCHANGED filters
        /\ UNCHANGED restOfHome

\* A load whose fetch rejected resumes: api.getAllProperties returns [].
LoadFailsToConnect ==
    \E i \in 1..Len(loads) :
        /\ loads[i].pc = "in flight"
        /\ properties' = <<>>
        /\ loads' = [loads EXCEPT ![i] =
              [@ EXCEPT !.pc = "done", !.thrown = "connection error"]]
        /\ isLoading' = FALSE
        /\ UNCHANGED filters
        /\ UNCHANGED restOfHome

NextHome ==
    \/ ChangeSearch
    \/ ChangePropertyType
    \/ ChangeNumericInput
    \/ HandleClearFilters
    \/ LoadResolves
    \/ LoadFailsToConnect

SpecHome == InitHome /\ [][NextHome]_vars

---------------------------------------------------------------------------
(* Claims on the HomePage of Module 3                                      *)

\* C24: a load made after a numeric input was cleared (its filter then
\* holds 0) shows the listings a load without that filter gives; this for
\* the maximum price, the minimum price and the minimum bedrooms.
C24_ClearedBoundIsNoBound ==
    \A i \in 1..Len(loads) :
        loads[i].pc = "done" /\ loads[i].thrown = "none" =>
            \A k \in {"minPrice", "maxPrice", "minBedrooms"} :
                loads[i].filters[k] = Some(0) =>
                    loads[i].result \in
                        findAll(db, DecodeQuery(EncodeParams(
                            [loads[i].filters EXCEPT ![k] = Undefined])))

\* C25: once every load has completed the page shows the result of the load
\* made last, which is the load for the current filters, and the loading
\* flag is down only when no load is in flight.
C25_LatestFiltersWin ==
    /\ (\A i \in 1..Len(loads) : loads[i].pc = "done") =>
          /\ loads[Len(loads)].filters = filters
          /\ properties = loads[Len(loads)].result
    /\ ~isLoading => \A i \in 1..Len(loads) : loads[i].pc = "done"

---------------------------------------------------------------------------
(* debounce (utils/dom.ts)                                                 *)

\* A function that leaves a pending timeout as it is (the first call of a
\* burst wins).
debouncedKeepingFirst(pending, args, now, d) ==
    IF pending # Undefined THEN pending ELSE Some([args |-> args, due |-> now + d])

\* The debounced function called with args at time now: the pending timeout
\* is cleared and a new one is set, due after d.
debounced(pending, args, now, d) == Some([args |-> args, due |-> now + d])

---------------------------------------------------------------------------
(* Country Explorer (main.ts): UiState, render and handleSearch            *)

\* Largest number of runs of handleSearch that render, in one behaviour.
MaxSearches == 3

Containers == {"loadingState", "errorState", "emptyState", "noResultsState", "countriesList"}

showElement(shown, element) == shown \cup {element}
hideElement(shown, element) == shown \ {element}

\* No container hidden before the new one is shown.
hideNoState(shown) == shown

hideAllStates(shown) ==
    hideElement(hideElement(hideElement(hideElement(hideElement(shown,
        "loadingState"), "errorState"), "emptyState"), "noResultsState"), "countriesList")

\* The states of the UI.
Idle == [status |-> "idle"]
Loading == [status |-> "loading"]
Empty == [status |-> "empty"]
Success(data) == [status |-> "success", data |-> data]
Failure(message) == [status |-> "error", message |-> message]

\* render(state): the containers shown afterwards (currentState = state is
\* the assignment of the actions).
render(state, shown) ==
    LET hidden == hideAllStates(shown)
    IN  CASE state.status = "idle" -> showElement(hidden, "emptyState")
          [] state.status = "loading" -> showElement(hidden, "loadingState")
          [] state.status = "success" ->
                IF Len(state.data) = 0 THEN showElement(hidden, "noResultsState")
                ELSE showElement(hidden, "countriesList")
          [] state.status = "error" -> showElement(hidden, "errorState")
          [] state.status = "empty" -> showElement(hidden, "noResultsState")
          [] OTHER -> hidden

\* String.prototype.trim on the texts of the model (blanks are spaces).
trim(text) ==
    LET inked == {i \in 1..Len(text) : text[i] # " "}
    IN  IF inked = {} THEN <<>>
        ELSE SubSeq(text, CHOOSE i \in inked : \A j \in inked : i <= j,
                          CHOOSE i \in inked : \A j \in inked : i >= j)

\* The texts the user may leave in the search input.
qEs == <<"e","s">>
qFr == <<"f","r">>
qZz == <<"z","z">>
SearchTexts == {<<>>, <<" ">>, qEs, <<" ">> \o qEs \o <<" ">>, qFr, qZz}

\* The countries the service holds for a query.
CountriesFor(query) ==
    IF query = qEs THEN <<"Spain", "Estonia">>
    ELSE IF query = qFr THEN <<"France">>
    ELSE <<>>

\* await searchCountries(query): it resolves with the countries (none for a
\* query nothing matches) or rejects.
SearchOutcomes(query) ==
    {Success(CountriesFor(query)), Failure("Error de red")}
        \cup (IF CountriesFor(query) = <<>> THEN {Failure("No se encontraron países")} ELSE {})

\* The state handleSearch renders for an outcome of searchCountries.
RenderedFor(outcome) ==
    IF outcome.status = "error" THEN outcome
    ELSE IF Len(outcome.data) = 0 THEN Empty
    ELSE outcome

\* initializeApp: listeners set, render({ status: 'idle' }) over whatever the
\* page showed.
InitExplorer ==
    /\ currentState = Idle
    /\ \E shown \in SUBSET Containers : visible = render(Idle, shown)
    /\ lastSearchQuery = <<>>
    /\ searchInput = <<>>
    /\ searches = <<>>
    /\ timeoutId = Undefined
    /\ delay = 400
    /\ clock = 0
    /\ debouncedCalls = <<>>
    /\ invocations = <<>>
    /\ op = "none"
    /\ store = <<>>
    /\ db = <<>>
    /\ call = NoCall
    /\ filters = NoFilters
    /\ params = NoParams
    /\ decoded = NoFilters
    /\ thrown = "none"
    /\ response = NoResponse
    /\ result = <<>>
    /\ requests = <<>>
    /\ importPending = FALSE
    /\ HomeClosed

restOfExplorer ==
    <<store, db, call, filters, params, decoded, thrown, response, result,
      requests, clock, importPending, homeVars, debouncedCalls, invocations, delay>>

\* A search that is made whenever the query is not empty.
handleSearchAlways ==
    LET query == trim(searchInput)
    IN  IF Len(query) = 0
        THEN /\ Len(searches) < MaxSearches
             /\ currentState' = Idle
             /\ visible' = render(Idle, visible)
             /\ lastSearchQuery' = <<>>
             /\ searches' = Append(searches, [query |-> query, pc |-> "done", rendered |-> Idle])
        ELSE /\ Len(searches) < MaxSearches
             /\ lastSearchQuery' = query
             /\ currentState' = Loading
             /\ visible' = render(Loading, visible)
             /\ searches' = Append(searches,
                   [query |-> query, pc |-> "in flight", rendered |-> Loading])

\* handleSearch up to its await: idle for an empty query, nothing for the
\* query on display, else loading and the call of searchCountries.
handleSearch ==
    LET query == trim(searchInput)
    IN  IF Len(query) = 0
        THEN /\ Len(searches) < MaxSearches
             /\ currentState' = Idle
             /\ visible' = render(Idle, visible)
             /\ lastSearchQuery' = <<>>
             /\ searches' = Append(searches, [query |-> query, pc |-> "done", rendered |-> Idle])
        ELSE IF query = lastSearchQuery /\ currentState.status = "success"
        THEN UNCHANGED <<currentState, visible, lastSearchQuery, searches>>
        ELSE /\ Len(searches) < MaxSearches
             /\ lastSearchQuery' = query
             /\ currentState' = Loading
             /\ visible' = render(Loading, visible)
             /\ searches' = Append(searches,
                   [query |-> query, pc |-> "in flight", rendered |-> Loading])

\* The user edits the search input: the input event calls debouncedSearch.
TypeInSearchInput ==
    /\ \E text \in SearchTexts : text # searchInput /\ searchInput' = text
    /\ timeoutId' = debounced(timeoutId, <<>>, clock, delay)
    /\ op' = "input"
    /\ UNCHANGED <<currentState, visible, lastSearchQuery, searches>>
    /\ UNCHANGED restOfExplorer

\* The delay passes with no further input event: the timeout runs handleSearch.
DebouncedSearchRuns ==
    /\ timeoutId # Undefined
    /\ timeoutId' = Undefined
    /\ op' = "debouncedSearch"
    /\ handleSearch
    /\ UNCHANGED searchInput
    /\ UNCHANGED restOfExplorer

ClickSearchButton ==
    /\ op' = "click searchButton"
    /\ handleSearch
    /\ UNCHANGED <<searchInput, timeoutId>>
    /\ UNCHANGED restOfExplorer

PressEnter ==
    /\ op' = "keydown Enter"
    /\ handleSearch
    /\ UNCHANGED <<searchInput, timeoutId>>
    /\ UNCHANGED restOfExplorer

\* handleRetry; its button is inside the error container.
ClickRetryButton ==
    /\ "errorState" \in visible
    /\ op' = "click retryButton"
    /\ handleSearch
    /\ UNCHANGED <<searchInput, timeoutId>>
    /\ UNCHANGED restOfExplorer

\* handleSearch after its await: the outcome of searchCountries is rendered.
SearchSettles ==
    /\ \E i \in 1..Len(searches) :
          /\ searches[i].pc = "in flight"
          /\ \E outcome \in SearchOutcomes(searches[i].query) :
                /\ currentState' = RenderedFor(outcome)
                /\ visible' = render(RenderedFor(outcome), visible)
                /\ searches' = [searches EXCEPT ![i] =
                      [@ EXCEPT !.pc = "done", !.rendered = RenderedFor(outcome)]]
    /\ op' = "searchCountries settled"
    /\ UNCHANGED <<lastSearchQuery, searchInput, timeoutId>>
    /\ UNCHANGED restOfExplorer

NextExplorer ==
    \/ TypeInSearchInput
    \/ DebouncedSearchRuns
    \/ ClickSearchButton
    \/ PressEnter
    \/ ClickRetryButton
    \/ SearchSettles

SpecExplorer == InitExplorer /\ [][NextExplorer]_vars

---------------------------------------------------------------------------
(* Claims on the Country Explorer                                          *)

\* C27: once no search is in flight, the state on display is the one the
\* run of handleSearch made last rendered: the outcome of its search, or
\* idle when it found the input empty.
C27_LatestSearchWins ==
    Len(searches) > 0 /\ (\A i \in 1..Len(searches) : searches[i].pc = "done") =>
        currentState = searches[Len(searches)].rendered

\* The container that stands for a state of the UI.
ContainerFor(state) ==
    CASE state.status = "idle" -> "emptyState"
      [] state.status = "loading" -> "loadingState"
      [] state.status = "error" -> "errorState"
      [] state.status = "empty" -> "noResultsState"
      [] state.status = "success" ->
            IF state.data = <<>> THEN "noResultsState" ELSE "countriesList"

UiStates ==
    {Idle, Loading, Empty, Success(<<>>), Success(CountriesFor(qEs)), Failure("Error de red")}

\* C28: after every render exactly one of the five containers is visible,
\* the one of the current state's status (no-results for empty and for
\* success with no country); render gives this for every state and from
\* any visibility (render being a function of its arguments, this part is
\* evaluated on the states before the first search).
C28_ExactlyOneContainerVisible ==
    /\ Cardinality(visible \cap Containers) = 1
    /\ visible = {ContainerFor(currentState)}
    /\ searches = <<>> =>
          \A state \in UiStates :
              \A shown \in SUBSET Containers :
                  render(state, shown) = {ContainerFor(state)}

C28_Witness ==
    /\ Len(searches) = 2
    /\ searches[1].rendered.status = "error"
    /\ searches[2].rendered.status = "success"
    /\ currentState = searches[2].rendered
    /\ visible = {"countriesList"}

\* The requests made: the runs of handleSearch that called searchCountries.
RequestsOf(runs) == SelectSeq(runs, LAMBDA r : r.query # <<>>)

\* C30: a run of handleSearch whose trimmed query is the query searched last,
\* while the UI shows the successful results of that query, makes no request
\* and leaves the state of the UI as it is; a run with an empty trimmed
\* query makes no request, renders idle and resets the query searched last.
C30_DuplicateSearchAvoided ==
    [][op' \in {"debouncedSearch", "click searchButton", "keydown Enter",
                "click retryButton"} =>
          LET query == trim(searchInput)
          IN  /\ /\ query # <<>>
                 /\ query = lastSearchQuery
                 /\ currentState = Success(CountriesFor(query))
                 => UNCHANGED <<searches, currentState, visible, lastSearchQuery>>
              /\ query = <<>> =>
                    /\ RequestsOf(searches') = RequestsOf(searches)
                    /\ currentState' = Idle
                    /\ visible' = {"emptyState"}
                    /\ lastSearchQuery' = <<>>]_vars

C30_Witness ==
    /\ op = "click searchButton"
    /\ currentState = Success(CountriesFor(qEs))
    /\ lastSearchQuery = qEs
    /\ searchInput = <<" ">> \o qEs \o <<" ">>
    /\ Len(searches) = 1

---------------------------------------------------------------------------
(* debounce in time: calls, the timeout and the wrapped function           *)

\* Largest number of calls of the debounced function in one behaviour.
MaxCalls == 3
\* Last millisecond of a behaviour of the debounced function.
MaxTime == 4

\* The delays and the arguments given.
Delays == {1, 2}
DebounceArgs == {<<"a">>, <<"b">>}

\* debounce(fn, delay) returned: no timeout set, nothing called yet.
InitDebounce ==
    /\ delay \in Delays
    /\ clock = 0
    /\ timeoutId = Undefined
    /\ debouncedCalls = <<>>
    /\ invocations = <<>>
    /\ op = "none"
    /\ store = <<>>
    /\ db = <<>>
    /\ call = NoCall
    /\ filters = NoFilters
    /\ params = NoParams
    /\ decoded = NoFilters
    /\ thrown = "none"
    /\ response = NoResponse
    /\ result = <<>>
    /\ requests = <<>>
    /\ importPending = FALSE
    /\ HomeClosed /\ ExplorerClosed

restOfDebounce ==
    <<store, db, call, op, filters, params, decoded, thrown, response, result,
      requests, importPending, homeVars, explorerVars, delay>>

\* A timeout that is due runs before time goes on and before any later call.
NoTimeoutDue == IF timeoutId = Undefined THEN TRUE ELSE clock < timeoutId[1].due

\* The debounced function is called: clearTimeout, then setTimeout.
CallDebounced ==
    /\ Len(debouncedCalls) < MaxCalls
    /\ clock + delay <= MaxTime
    /\ NoTimeoutDue
    /\ \E args \in DebounceArgs :
          /\ timeoutId' = debounced(timeoutId, args, clock, delay)
          /\ debouncedCalls' = Append(debouncedCalls, [args |-> args, at |-> clock])
    /\ UNCHANGED <<clock, invocations>>
    /\ UNCHANGED restOfDebounce

\* The timeout runs: fn(...args), with the args of the call that set it.
TimeoutRuns ==
    /\ timeoutId # Undefined
    /\ clock >= timeoutId[1].due
    /\ invocations' = Append(invocations,
          [args |-> timeoutId[1].args, at |-> clock, after |-> Len(debouncedCalls)])
    /\ timeoutId' = Undefined
    /\ UNCHANGED <<clock, debouncedCalls>>
    /\ UNCHANGED restOfDebounce

\* A millisecond passes.
TimePasses ==
    /\ clock < MaxTime
    /\ NoTimeoutDue
    /\ clock' = clock + 1
    /\ UNCHANGED <<timeoutId, debouncedCalls, invocations>>
    /\ UNCHANGED restOfDebounce

NextDebounce ==
    \/ CallDebounced
    \/ TimeoutRuns
    \/ TimePasses

\* Timeouts that are due run, and time goes on.
SpecDebounce ==
    InitDebounce /\ [][NextDebounce]_vars /\ WF_vars(TimeoutRuns) /\ WF_vars(TimePasses)

---------------------------------------------------------------------------
(* Claims on debounce                                                      *)

\* Call k is followed by another call less than the delay later.
FollowedWithinDelay(k) ==
    /\ k < Len(debouncedCalls)
    /\ debouncedCalls[k + 1].at - debouncedCalls[k].at < delay

\* The invocations of the wrapped function made for call k.
InvocationsFor(k) == {n \in 1..Len(invocations) : invocations[n].after = k}

\* C29: of a burst of calls, each less than the delay after the one before,
\* only the last reaches the wrapped function: it is invoked once, with the
\* arguments of that call and no sooner than the delay after it, and a call
\* followed by another within the delay is never invoked; the last call of
\* every burst is invoked in the end.
C29_DebounceOncePerBurst ==
    /\ [](/\ \A n \in 1..Len(invocations) :
               LET k == invocations[n].after
               IN  /\ k >= 1
                   /\ invocations[n].args = debouncedCalls[k].args
                   /\ invocations[n].at >= debouncedCalls[k].at + delay
          /\ \A k \in 1..Len(debouncedCalls) :
               /\ Cardinality(InvocationsFor(k)) <= 1
               /\ FollowedWithinDelay(k) => InvocationsFor(k) = {}
               /\ ~FollowedWithinDelay(k)
                     /\ (k < Len(debouncedCalls) \/ timeoutId = Undefined)
                     => Cardinality(InvocationsFor(k)) = 1)
    /\ \A k \in 1..MaxCalls :
          [](Len(debouncedCalls) >= k =>
                <>(FollowedWithinDelay(k) \/ InvocationsFor(k) # {}))

C29_Witness ==
    /\ delay = 2
    /\ debouncedCalls = <<[args |-> <<"a">>, at |-> 0], [args |-> <<"a">>, at |-> 1],
                          [args |-> <<"b">>, at |-> 2]>>
    /\ invocations = <<[args |-> <<"b">>, at |-> 4, after |-> 3]>>

===========================================================================
